---------------------------- MODULE Spec2Model ----------------------------
(***************************************************************************)
(* Data-quality gate of padre-values: the statistical value validator,    *)
(* the reference range reconciler (_legacy/src/value_validator.py) and    *)
(* the ingestion orchestrator save_report (src/supabase_updater.py) and    *)
(* the metric name normalizer of the sheet (src/sheets_updater.py).       *)
(*                                                                         *)
(* Python values are tagged pairs <<tag, n>> so that None, strings, NaN   *)
(* and numbers live in one comparable domain:                              *)
(*   <<"none",0>>  None          <<"num",n>>     the float n               *)
(*   <<"str",0>>   "abc"         <<"numstr",n>>  the string "n"            *)
(*   <<"nan",0>>   float("nan")                                            *)
(* Numbers are integers; a median of an even-sized history is a half, so   *)
(* medians are carried doubled (med2 = 2 * median) and every comparison    *)
(* of a percentage against a threshold is done by cross-multiplication,    *)
(* which is exact.  On the integer inputs used here the float evaluation   *)
(* of the source agrees with the exact one.                                *)
(***************************************************************************)
EXTENDS Integers, Sequences, FiniteSets, TLC

VARIABLES
    pc,                 \* "call" before the pure function ran, "done" after; "db" in Spec,
                        \* "db-fault" in SpecFault; "names", "identified", "validated"
                        \* in SpecSynonyms; "sheet", "consolidated" in SpecConsolidate
    vArgs,              \* arguments of validate_metric_value
    vResult,            \* its ValidationResult
    rArgs,              \* arguments of validate_reference_change
    rResult,            \* its ReferenceUpdateResult
    reports,            \* table reports
    metrics,            \* table metrics
    metric_definitions, \* table metric_definitions
    metric_aliases,     \* table metric_aliases
    calls,              \* number of save_report calls made
    last,               \* arguments, queued batches and return value of the last save_report;
                        \* in the normalizer, the outcome of the last validation or
                        \* consolidation and the sheets before it
    all_metrics,        \* the metric names handed to identify_synonyms
    synonyms,           \* the synonym map, original name -> unified name
    sheet_data,         \* the rows of the data sheet
    reference_data      \* the rows of the reference sheet

vars == <<pc, vArgs, vResult, rArgs, rResult,
          reports, metrics, metric_definitions, metric_aliases, calls, last,
          all_metrics, synonyms, sheet_data, reference_data>>

\* the sheet, the normalizer and the alias table, untouched by the validator and by
\* save_report
sheetVars == <<all_metrics, synonyms, sheet_data, reference_data, metric_aliases>>

NoSheet ==
    /\ all_metrics = <<>>
    /\ synonyms = <<>>
    /\ sheet_data = <<>>
    /\ reference_data = <<>>
    /\ metric_aliases = {}

---------------------------------------------------------------------------
(* Python values *)

None == <<"none", 0>>
NaN == <<"nan", 0>>
NonNumeric == <<"str", 0>>

Num(n) == <<"num", n>>

NumStr(n) == <<"numstr", n>>

IsNone(v) == v[1] = "none"

IsNum(v) == v[1] = "num"

\* float(value) succeeds: None raises TypeError, "abc" raises ValueError
float_ok(v) == v[1] \in {"num", "numstr", "nan"}

\* float(value) where it succeeds
float(v) == IF v[1] = "numstr" THEN Num(v[2]) ELSE v

abs(n) == IF n < 0 THEN -n ELSE n

\* a / b * 100 <= t for a >= 0, b # 0, without dividing
pct_le(a, b, t) == IF b > 0 THEN a * 100 <= t * b ELSE a * 100 >= t * b

---------------------------------------------------------------------------
(* statistics.median over a list of integers, doubled *)

RECURSIVE insert_sorted(_, _)
insert_sorted(x, s) ==
    IF s = <<>> THEN <<x>>
    ELSE IF x <= Head(s) THEN <<x>> \o s
    ELSE <<Head(s)>> \o insert_sorted(x, Tail(s))

RECURSIVE sorted(_)
sorted(s) == IF s = <<>> THEN <<>> ELSE insert_sorted(Head(s), sorted(Tail(s)))

median2(data) ==
    LET d == sorted(data)
        n == Len(d)
    IN  IF n % 2 = 1 THEN 2 * d[(n \div 2) + 1]
        ELSE d[n \div 2] + d[(n \div 2) + 1]

\* [v for v in values if v is not None]
filter_none(values) == SelectSeq(values, LAMBDA v : ~IsNone(v))

\* the numbers of a list of tagged numbers
unwrap(values) == [i \in 1..Len(values) |-> values[i][2]]

calculate_median2(values) ==
    LET filtered == filter_none(values)
    IN  IF filtered = <<>> THEN 0 ELSE median2(unwrap(filtered))

---------------------------------------------------------------------------
(* validate_metric_value *)

ValidationResult(valid, reason) == [valid |-> valid, reason |-> reason, raised |-> "none"]

ZeroDivisionError == [valid |-> FALSE, reason |-> "", raised |-> "ZeroDivisionError"]

\* "if not filtered_existing": no history to contradict the value
\* (faulty variant: None entries count as history)
no_history_unfiltered(existing_values) == existing_values = <<>>
no_history(existing_values) == filter_none(existing_values) = <<>>

\* "if med == 0"
median_is_zero(med2) == med2 = 0

\* "abs(value) > 1000" on a float (any comparison with NaN is False)
\* (faulty variant: 1000 itself is too far)
far_from_zero_ge(value) == IsNum(value) /\ abs(value[2]) >= 1000
far_from_zero(value) == IsNum(value) /\ abs(value[2]) > 1000

\* deviation_pct = abs(value - med) / abs(med) * 100, as the fraction num / den * 100
\* of doubled quantities
\* (faulty variant: the deviation keeps its sign)
deviation_signed(value, med2) == [num |-> med2 - 2 * value[2], den |-> abs(med2)]
deviation_pct(value, med2) == [num |-> abs(2 * value[2] - med2), den |-> abs(med2)]

\* "if deviation_pct > max_deviation_pct" (False for NaN)
\* (faulty variant: the threshold itself exceeds)
deviation_exceeds_ge(value, med2, max_deviation_pct) ==
    /\ IsNum(value)
    /\ LET d == deviation_pct(value, med2)
       IN  d.num * 100 >= max_deviation_pct * d.den
deviation_exceeds(value, med2, max_deviation_pct) ==
    /\ IsNum(value)
    /\ LET d == deviation_pct(value, med2)
       IN  ~pct_le(d.num, d.den, max_deviation_pct)

validate_metric_value(name, value, existing_values, max_deviation_pct) ==
    IF IsNone(value) THEN ValidationResult(FALSE, "Value is None")
    ELSE IF ~float_ok(value) THEN ValidationResult(FALSE, "Value is not numeric")
    ELSE
    LET v == float(value)
        filtered_existing == filter_none(existing_values)
        med2 == calculate_median2(filtered_existing)
    IN  IF no_history(existing_values)
        THEN ValidationResult(TRUE, "First value for this metric, accepted")
        ELSE IF median_is_zero(med2)
        THEN IF far_from_zero(v)
             THEN ValidationResult(FALSE, "Value is very far from median 0")
             ELSE ValidationResult(TRUE, "Value acceptable (median is 0)")
        ELSE IF med2 = 0 THEN ZeroDivisionError
        ELSE IF deviation_exceeds(v, med2, max_deviation_pct)
        THEN ValidationResult(FALSE, "Suspicious value")
        ELSE ValidationResult(TRUE, "Value within normal range of historical values")

---------------------------------------------------------------------------
(* validate_reference_change *)

\* a warning is the pair <<ref_type, text>>; None is NoWarning
NoWarning == <<"", "None">>

ReferenceUpdateResult(should_update, warning) ==
    [should_update |-> should_update, warning |-> warning, raised |-> "none"]

RefZeroDivisionError == [should_update |-> FALSE, warning |-> NoWarning, raised |-> "ZeroDivisionError"]

\* "existing_ref == 0" / "new_ref == 0" on floats (False for NaN)
is_zero(ref) == IsNum(ref) /\ ref[2] = 0

\* diff_pct = abs(new_ref - existing_ref) / abs(existing_ref) * 100 as a fraction;
\* NaN when either operand is NaN
\* (faulty variant: divides by existing_ref, not by its magnitude)
diff_pct_no_abs(existing_ref, new_ref) ==
    IF IsNum(existing_ref) /\ IsNum(new_ref)
    THEN [nan |-> FALSE, num |-> abs(new_ref[2] - existing_ref[2]), den |-> existing_ref[2]]
    ELSE [nan |-> TRUE, num |-> 0, den |-> 1]
diff_pct(existing_ref, new_ref) ==
    IF IsNum(existing_ref) /\ IsNum(new_ref)
    THEN [nan |-> FALSE, num |-> abs(new_ref[2] - existing_ref[2]), den |-> abs(existing_ref[2])]
    ELSE [nan |-> TRUE, num |-> 0, den |-> 1]

\* "diff_pct <= 15"
\* (faulty variant: exactly 15% is not minor)
minor_change_lt(d) == ~d.nan /\ d.num * 100 < 15 * d.den
minor_change(d) == ~d.nan /\ pct_le(d.num, d.den, 15)

\* "diff_pct <= 50"
\* (faulty variant: every difference that is a number passes)
moderate_change_any(d) == ~d.nan
moderate_change(d) == ~d.nan /\ pct_le(d.num, d.den, 50)

\* the branch taken when existing_ref == 0
\* (faulty variant: a zero reference is overwritten)
zero_existing_accepts(new_ref, ref_type) ==
    IF is_zero(new_ref) THEN ReferenceUpdateResult(FALSE, NoWarning)
    ELSE ReferenceUpdateResult(TRUE, <<ref_type, "Reference changed">>)
zero_existing(new_ref, ref_type) ==
    IF is_zero(new_ref) THEN ReferenceUpdateResult(FALSE, NoWarning)
    ELSE ReferenceUpdateResult(FALSE, <<ref_type, "Suspicious change: 0 ->">>)

\* the two early returns on None
\* (faulty variant: new_ref is looked at first)
none_checks_new_first(existing_ref, new_ref) ==
    IF IsNone(new_ref) THEN "keep" ELSE IF IsNone(existing_ref) THEN "accept" ELSE "both"
none_checks(existing_ref, new_ref) ==
    IF IsNone(existing_ref) THEN "accept" ELSE IF IsNone(new_ref) THEN "keep" ELSE "both"

validate_reference_change(existing_ref, new_ref, ref_type) ==
    LET nc == none_checks(existing_ref, new_ref)
    IN
    IF nc = "accept" THEN ReferenceUpdateResult(TRUE, NoWarning)
    ELSE IF nc = "keep" THEN ReferenceUpdateResult(FALSE, NoWarning)
    ELSE IF ~(float_ok(existing_ref) /\ float_ok(new_ref))
    THEN ReferenceUpdateResult(FALSE, <<"", "Invalid reference values">>)
    ELSE
    LET e == float(existing_ref)
        n == float(new_ref)
        d == diff_pct(e, n)
    IN  IF is_zero(e) THEN zero_existing(n, ref_type)
        ELSE IF ~d.nan /\ d.den = 0 THEN RefZeroDivisionError
        ELSE IF minor_change(d) THEN ReferenceUpdateResult(TRUE, NoWarning)
        ELSE IF moderate_change(d)
        THEN ReferenceUpdateResult(TRUE, <<ref_type, "Reference changed">>)
        ELSE ReferenceUpdateResult(FALSE, <<ref_type, "Suspicious change rejected">>)

---------------------------------------------------------------------------
(* Bounds and input sets of the two pure-function specifications *)

MaxHist == 3   \* longest history handed to validate_metric_value
MaxVal == 13   \* candidate values range over -MaxVal..MaxVal (and +-1000, +-1001)
MaxRef == 24   \* reference values range over -MaxRef..MaxRef

HistEntries == {None} \cup {Num(n) : n \in {-2, 0, 1, 2}}

Histories == UNION {[1..n -> HistEntries] : n \in 0..MaxHist}

ValueInputs ==
    {None, NonNumeric, NaN, NumStr(7)}
        \cup {Num(n) : n \in -MaxVal..MaxVal}
        \cup {Num(n) : n \in {-1001, -1000, 1000, 1001}}

MaxDevInputs == {100, 500}

RefInputs == {None, NonNumeric, NaN, NumStr(10)} \cup {Num(n) : n \in -MaxRef..MaxRef}

IdleVArgs == [name |-> "", value |-> None, existing_values |-> <<>>, max_deviation_pct |-> 500]
IdleVResult == ValidationResult(FALSE, "")
IdleRArgs == [existing_ref |-> None, new_ref |-> None, ref_type |-> "reference"]
IdleRResult == ReferenceUpdateResult(FALSE, NoWarning)

---------------------------------------------------------------------------
(* SpecValidate: validate_metric_value applied to every bounded input *)

InitValidate ==
    /\ pc = "call"
    /\ vArgs \in [name : {"Hemoglobin"}, value : ValueInputs,
                   existing_values : Histories, max_deviation_pct : MaxDevInputs]
    /\ vResult = IdleVResult
    /\ rArgs = IdleRArgs
    /\ rResult = IdleRResult
    /\ reports = {}
    /\ metrics = {}
    /\ metric_definitions = {}
    /\ calls = 0
    /\ last = <<>>
    /\ NoSheet

ValidateMetricValue ==
    /\ pc = "call"
    /\ pc' = "validated"
    /\ vResult' = validate_metric_value(vArgs.name, vArgs.value, vArgs.existing_values,
                                         vArgs.max_deviation_pct)
    /\ UNCHANGED <<vArgs, rArgs, rResult, reports, metrics, metric_definitions, calls, last>>
    /\ UNCHANGED sheetVars

NextValidate == ValidateMetricValue

SpecValidate == InitValidate /\ [][NextValidate]_vars

---------------------------------------------------------------------------
(* SpecRefChange: validate_reference_change applied to every bounded input *)

InitRefChange ==
    /\ pc = "call"
    /\ vArgs = IdleVArgs
    /\ vResult = IdleVResult
    /\ rArgs \in [existing_ref : RefInputs, new_ref : RefInputs, ref_type : {"ref_high"}]
    /\ rResult = IdleRResult
    /\ reports = {}
    /\ metrics = {}
    /\ metric_definitions = {}
    /\ calls = 0
    /\ last = <<>>
    /\ NoSheet

ValidateReferenceChange ==
    /\ pc = "call"
    /\ pc' = "reconciled"
    /\ rResult' = validate_reference_change(rArgs.existing_ref, rArgs.new_ref, rArgs.ref_type)
    /\ UNCHANGED <<vArgs, vResult, rArgs, reports, metrics, metric_definitions, calls, last>>
    /\ UNCHANGED sheetVars

NextRefChange == ValidateReferenceChange

SpecRefChange == InitRefChange /\ [][NextRefChange]_vars

---------------------------------------------------------------------------
(* Properties of validate_metric_value, checked under SpecValidate *)

Validated == pc = "validated"

\* the value is a number (after coercion): not None, not "abc", not NaN
ValueIsNumber == float_ok(vArgs.value) /\ IsNum(float(vArgs.value))

ValueNumber == float(vArgs.value)[2]

\* the non-null entries of the history, as integers
NonNullHistory == unwrap(filter_none(vArgs.existing_values))

\* the k-th smallest entry of a non-empty list, by counting
KthSmallest(s, k) ==
    CHOOSE x \in {s[i] : i \in 1..Len(s)} :
        /\ Cardinality({i \in 1..Len(s) : s[i] < x}) < k
        /\ Cardinality({i \in 1..Len(s) : s[i] <= x}) >= k

\* twice the median of the non-null history: the two middle entries added
HistoryMedian2 ==
    LET n == Len(NonNullHistory)
    IN  KthSmallest(NonNullHistory, (n + 1) \div 2) + KthSmallest(NonNullHistory, (n \div 2) + 1)

HasHistory == NonNullHistory # <<>>

\* abs(value - median) / abs(median) * 100 <= t, for median # 0
DeviationWithin(t) == abs(2 * ValueNumber - HistoryMedian2) * 100 <= t * abs(HistoryMedian2)

C2_FirstValueAccepted ==
    (Validated /\ ValueIsNumber /\ ~HasHistory) => vResult.valid /\ vResult.raised = "none"

\* a huge value was accepted against a history holding only nulls
C2_Witness ==
    /\ Validated /\ ValueIsNumber /\ ~HasHistory
    /\ vArgs.existing_values = <<None, None>>
    /\ ValueNumber = 1001
    /\ vResult.valid

\* C3: when the median of the non-null history is 0 the value is invalid exactly when
\* abs(value) > 1000; nothing is divided by zero and max_deviation_pct has no influence.
C3_ZeroMedianAbsoluteRule ==
    (Validated /\ ValueIsNumber /\ HasHistory /\ HistoryMedian2 = 0)
        => /\ vResult.raised = "none"
           /\ ~vResult.valid <=> abs(ValueNumber) > 1000
           /\ \A m \in MaxDevInputs :
                 validate_metric_value(vArgs.name, vArgs.value, vArgs.existing_values, m) = vResult

\* with median 0 (history -2, 0, 2) the value 1000 was accepted under the 100% threshold
C3_Witness ==
    /\ Validated /\ ValueIsNumber /\ HasHistory /\ HistoryMedian2 = 0
    /\ Len(NonNullHistory) = 3
    /\ vArgs.max_deviation_pct = 100
    /\ ValueNumber = 1000
    /\ vResult.valid

\* C4: under the default threshold of 500% and a positive median, no value v with
\* -4 * median <= v < median is rejected (so no non-negative value below the median
\* is), and every value above 6 times the median is rejected.
C4_DefaultThresholdBelowMedian ==
    (Validated /\ ValueIsNumber /\ HasHistory /\ HistoryMedian2 > 0
       /\ vArgs.max_deviation_pct = 500)
        => /\ (2 * ValueNumber < HistoryMedian2 /\ 2 * ValueNumber >= -4 * HistoryMedian2)
                => vResult.valid
           /\ (2 * ValueNumber > 6 * HistoryMedian2) => ~vResult.valid

\* the value -4 was accepted against the median 1: exactly 500% below
C4_Witness ==
    /\ Validated /\ ValueIsNumber /\ HasHistory /\ HistoryMedian2 = 2
    /\ vArgs.max_deviation_pct = 500
    /\ ValueNumber = -4
    /\ vResult.valid

\* C4 as stated: under the default threshold and a positive median no value below the
\* median is ever rejected, and every value above 6 times the median is rejected.
C4_NoValueBelowMedianRejected ==
    (Validated /\ ValueIsNumber /\ HasHistory /\ HistoryMedian2 > 0
       /\ vArgs.max_deviation_pct = 500)
        => /\ (2 * ValueNumber < HistoryMedian2) => vResult.valid
           /\ (2 * ValueNumber > 6 * HistoryMedian2) => ~vResult.valid

---------------------------------------------------------------------------
(* Properties of validate_reference_change, checked under SpecRefChange *)

Reconciled == pc = "reconciled"

RefIsNumber(ref) == float_ok(ref) /\ IsNum(float(ref))

ExistingNumber == float(rArgs.existing_ref)[2]

NewNumber == float(rArgs.new_ref)[2]

\* abs(new_ref - existing_ref) / abs(existing_ref) * 100 <= t, for existing_ref # 0
DiffWithin(t) == abs(NewNumber - ExistingNumber) * 100 <= t * abs(ExistingNumber)

\* the outcome class of a result
OutcomeClass(result) ==
    IF result.raised # "none" THEN "raised"
    ELSE IF ~result.should_update THEN "rejected"
    ELSE IF result.warning = NoWarning THEN "silent"
    ELSE "warned"

\* a reference value with its sign flipped
Negated(ref) == IF ref[1] \in {"num", "numstr"} THEN <<ref[1], -ref[2]>> ELSE ref

\* C5: validate_reference_change(None, x) gives should_update=true without warning for
\* every x, null included; validate_reference_change(x, None) gives should_update=false
\* without warning for every non-null x.
C5_NullHandling ==
    Reconciled
        => /\ IsNone(rArgs.existing_ref)
                => rResult = ReferenceUpdateResult(TRUE, NoWarning)
           /\ (~IsNone(rArgs.existing_ref) /\ IsNone(rArgs.new_ref))
                => rResult = ReferenceUpdateResult(FALSE, NoWarning)

\* both references null: accepted without warning
C5_Witness ==
    /\ Reconciled
    /\ IsNone(rArgs.existing_ref) /\ IsNone(rArgs.new_ref)
    /\ rResult.should_update

\* C6: for numeric existing_ref # 0 and numeric new_ref: diff_pct <= 15 updates without
\* warning, 15 < diff_pct <= 50 updates with a warning, diff_pct > 50 does not update
\* and warns; 15 and 50 belong to the lower band.
C6_PercentageBands ==
    (Reconciled /\ RefIsNumber(rArgs.existing_ref) /\ RefIsNumber(rArgs.new_ref)
       /\ ExistingNumber # 0)
        => /\ rResult.raised = "none"
           /\ DiffWithin(15)
                => rResult.should_update /\ rResult.warning = NoWarning
           /\ (~DiffWithin(15) /\ DiffWithin(50))
                => rResult.should_update /\ rResult.warning # NoWarning
           /\ ~DiffWithin(50)
                => ~rResult.should_update /\ rResult.warning # NoWarning

\* 20 -> 23 is exactly 15%: updated without warning
C6_Witness ==
    /\ Reconciled
    /\ rArgs.existing_ref = Num(20) /\ rArgs.new_ref = Num(23)
    /\ rResult.should_update /\ rResult.warning = NoWarning

\* C7: with existing_ref = 0 nothing is divided by zero and should_update is false for
\* every new_ref; new_ref = 0 gives no warning and every other number (and NaN) gives a
\* 'Suspicious' warning.
C7_ZeroExistingNeverUpdated ==
    (Reconciled /\ RefIsNumber(rArgs.existing_ref) /\ ExistingNumber = 0)
        => /\ rResult.raised = "none"
           /\ ~rResult.should_update
           /\ (RefIsNumber(rArgs.new_ref) /\ NewNumber = 0) => rResult.warning = NoWarning
           /\ (float_ok(rArgs.new_ref) /\ ~(RefIsNumber(rArgs.new_ref) /\ NewNumber = 0))
                => rResult.warning = <<rArgs.ref_type, "Suspicious change: 0 ->">>

\* 0 -> 1 was rejected as suspicious
C7_Witness ==
    /\ Reconciled
    /\ rArgs.existing_ref = Num(0) /\ rArgs.new_ref = Num(1)
    /\ ~rResult.should_update /\ rResult.warning[2] = "Suspicious change: 0 ->"

\* C8: for a # 0 the outcome class (silent / warned / rejected) of (a, b) equals the class
\* of (-a, -b): it depends only on abs(b - a) / abs(a) against 15 and 50.
C8_SignSymmetry ==
    (Reconciled /\ RefIsNumber(rArgs.existing_ref) /\ RefIsNumber(rArgs.new_ref)
       /\ ExistingNumber # 0)
        => OutcomeClass(rResult)
             = OutcomeClass(validate_reference_change(Negated(rArgs.existing_ref),
                                                      Negated(rArgs.new_ref), rArgs.ref_type))

\* a negative reference moved by 30% (-10 -> -13): warned, as is 10 -> 13
C8_Witness ==
    /\ Reconciled
    /\ rArgs.existing_ref = Num(-10) /\ rArgs.new_ref = Num(-13)
    /\ OutcomeClass(rResult) = "warned"

---------------------------------------------------------------------------
(* Storage collaborator: the tables reports, metrics and metric_definitions *)

\* a key that a dict does not hold
Absent == <<"absent", 0>>

\* the rows of a set as a list, in the order the store returns them
RECURSIVE rows_as_list(_)
rows_as_list(rows) ==
    IF rows = {} THEN <<>>
    ELSE LET r == CHOOSE x \in rows : TRUE
         IN  <<r>> \o rows_as_list(rows \ {r})

\* client.table("reports").select("id").eq("profile_id", ..).eq("sample_date", ..)
\* (faulty variant: the lookup never matches)
select_report_no_match(db_reports, profile_id, sample_date) == {}
select_report(db_reports, profile_id, sample_date) ==
    {r \in db_reports : r.profile_id = profile_id /\ r.sample_date = sample_date}

\* client.table("reports").insert({...}): the store assigns a fresh id
insert_report(db_reports, profile_id, sample_date) ==
    [id |-> Cardinality(db_reports) + 1, profile_id |-> profile_id, sample_date |-> sample_date]

\* upsert of one row with on_conflict="report_id,name"
\* (faulty variant: a plain insert, the stored row of the key stays)
upsert_metric_insert_only(db_metrics, row) == db_metrics \cup {row}
\* (faulty variant: the write replaces every stored row of the report)
upsert_metric_replace_report(db_metrics, row) ==
    {m \in db_metrics : m.report_id # row.report_id} \cup {row}
upsert_metric(db_metrics, row) ==
    {m \in db_metrics : ~(m.report_id = row.report_id /\ m.name = row.name)} \cup {row}

RECURSIVE upsert_metrics(_, _)
upsert_metrics(db_metrics, batch) ==
    IF batch = <<>> THEN db_metrics
    ELSE upsert_metrics(upsert_metric(db_metrics, Head(batch)), Tail(batch))

\* upsert of one row with on_conflict="profile_id,name": the columns the row does not
\* name keep their stored value (NULL on a new row)
\* (faulty variant: the whole row is overwritten, a column the row does not name
\* becomes NULL)
upsert_definition_overwrite(db_definitions, row) ==
    {d \in db_definitions : ~(d.profile_id = row.profile_id /\ d.name = row.name)}
        \cup {[profile_id |-> row.profile_id, name |-> row.name, unit |-> row.unit,
                ref_low |-> IF row.ref_low = Absent THEN None ELSE row.ref_low,
                ref_high |-> IF row.ref_high = Absent THEN None ELSE row.ref_high]}
upsert_definition(db_definitions, row) ==
    LET old == {d \in db_definitions : d.profile_id = row.profile_id /\ d.name = row.name}
        base == IF old = {}
                THEN [profile_id |-> row.profile_id, name |-> row.name, unit |-> None,
                      ref_low |-> None, ref_high |-> None]
                ELSE CHOOSE d \in old : TRUE
        new == [base EXCEPT !.unit = row.unit,
                            !.ref_low = IF row.ref_low = Absent THEN @ ELSE row.ref_low,
                            !.ref_high = IF row.ref_high = Absent THEN @ ELSE row.ref_high]
    IN  (db_definitions \ old) \cup {new}

RECURSIVE upsert_definitions(_, _)
upsert_definitions(db_definitions, batch) ==
    IF batch = <<>> THEN db_definitions
    ELSE upsert_definitions(upsert_definition(db_definitions, Head(batch)), Tail(batch))

get_existing_values_for_metric(db_reports, db_metrics, profile_id, metric_name) ==
    LET report_ids == {r.id : r \in {x \in db_reports : x.profile_id = profile_id}}
        metrics_result == rows_as_list({m \in db_metrics :
                                          m.name = metric_name /\ m.report_id \in report_ids})
    IN  IF report_ids = {} THEN <<>>
        ELSE filter_none([i \in 1..Len(metrics_result) |-> metrics_result[i].value])

get_existing_reference(db_definitions, profile_id, metric_name) ==
    LET result == {d \in db_definitions : d.profile_id = profile_id /\ d.name = metric_name}
    IN  IF result = {} THEN <<None, None>>
        ELSE LET row == CHOOSE d \in result : TRUE
             IN  <<row.ref_low, row.ref_high>>

---------------------------------------------------------------------------
(* save_report *)

\* a warning string of the summary: f"{name}: {text}"
Warning(name, text) == [name |-> name, text |-> text]

\* "if validate: ... if not validation.valid": the metric is skipped
\* (faulty variant: the verdict is ignored)
rejects_never(validate, validation) == FALSE
rejects(validate, validation) == validate /\ ~validation.valid

\* the definition update queued for an accepted metric
\* (faulty variant: every extracted reference is written, whatever the reconciler says)
build_definition_blind(db_definitions, profile_id, name, data) ==
    [warnings |-> <<>>,
     definition |->
         [profile_id |-> profile_id, name |-> name, unit |-> data.unit,
          ref_low |-> IF ~IsNone(data.ref_low) THEN data.ref_low ELSE Absent,
          ref_high |-> IF ~IsNone(data.ref_high) THEN data.ref_high ELSE Absent]]
build_definition(db_definitions, profile_id, name, data) ==
    LET existing == get_existing_reference(db_definitions, profile_id, name)
        ref_low_result == validate_reference_change(existing[1], data.ref_low, "ref_low")
        ref_high_result == validate_reference_change(existing[2], data.ref_high, "ref_high")
    IN  [warnings |->
             (IF ref_low_result.warning # NoWarning
              THEN <<Warning(name, ref_low_result.warning)>> ELSE <<>>)
             \o (IF ref_high_result.warning # NoWarning
                 THEN <<Warning(name, ref_high_result.warning)>> ELSE <<>>),
         definition |->
             [profile_id |-> profile_id, name |-> name, unit |-> data.unit,
              ref_low |-> IF ref_low_result.should_update /\ ~IsNone(data.ref_low)
                          THEN data.ref_low ELSE Absent,
              ref_high |-> IF ref_high_result.should_update /\ ~IsNone(data.ref_high)
                           THEN data.ref_high ELSE Absent]]

\* one pass of "for name, data in tests_dict.items()"
\* (faulty variant: once a metric was skipped, the metrics after it are skipped too)
process_metric_after_skip(acc, db, profile_id, report_id, validate, name, data) ==
    IF acc.stats.skipped > 0 THEN [acc EXCEPT !.stats.skipped = @ + 1]
    ELSE
    IF IsNone(data.value) THEN acc
    ELSE IF ~float_ok(data.value)
    THEN [acc EXCEPT !.stats.skipped = @ + 1,
                     !.stats.warnings = Append(@, Warning(name, <<"", "non-numeric value">>))]
    ELSE
    LET value == float(data.value)
        existing_values == get_existing_values_for_metric(db.reports, db.metrics,
                                                          profile_id, name)
        validation == validate_metric_value(name, value, existing_values, 500)
        built == build_definition(db.metric_definitions, profile_id, name, data)
    IN  IF rejects(validate, validation)
        THEN [acc EXCEPT !.stats.skipped = @ + 1,
                         !.stats.warnings = Append(@, Warning(name, <<"", validation.reason>>))]
        ELSE [acc EXCEPT
                !.metrics_to_upsert =
                    Append(@, [report_id |-> report_id, name |-> name, value |-> value,
                               unit |-> data.unit, ref_low |-> data.ref_low,
                               ref_high |-> data.ref_high, flag |-> data.flag]),
                !.stats.warnings = @ \o built.warnings,
                !.definitions_to_upsert = Append(@, built.definition)]
process_metric(acc, db, profile_id, report_id, validate, name, data) ==
    IF IsNone(data.value) THEN acc
    ELSE IF ~float_ok(data.value)
    THEN [acc EXCEPT !.stats.skipped = @ + 1,
                     !.stats.warnings = Append(@, Warning(name, <<"", "non-numeric value">>))]
    ELSE
    LET value == float(data.value)
        existing_values == get_existing_values_for_metric(db.reports, db.metrics,
                                                          profile_id, name)
        validation == validate_metric_value(name, value, existing_values, 500)
        built == build_definition(db.metric_definitions, profile_id, name, data)
    IN  IF rejects(validate, validation)
        THEN [acc EXCEPT !.stats.skipped = @ + 1,
                         !.stats.warnings = Append(@, Warning(name, <<"", validation.reason>>))]
        ELSE [acc EXCEPT
                !.metrics_to_upsert =
                    Append(@, [report_id |-> report_id, name |-> name, value |-> value,
                               unit |-> data.unit, ref_low |-> data.ref_low,
                               ref_high |-> data.ref_high, flag |-> data.flag]),
                !.stats.warnings = @ \o built.warnings,
                !.definitions_to_upsert = Append(@, built.definition)]

RECURSIVE process_metrics(_, _, _, _, _, _)
process_metrics(acc, db, profile_id, report_id, validate, tests) ==
    IF tests = <<>> THEN acc
    ELSE process_metrics(
             process_metric(acc, db, profile_id, report_id, validate,
                            Head(tests).name, Head(tests).data),
             db, profile_id, report_id, validate, Tail(tests))

\* save_report on the store db: the store afterwards, the queued batches and the
\* returned (report_id, stats)
save_report(db, profile_id, sample_date, tests_dict, validate) ==
    LET result == select_report(db.reports, profile_id, sample_date)
        inserted_report == insert_report(db.reports, profile_id, sample_date)
        report_id == IF result # {} THEN (CHOOSE r \in result : TRUE).id
                     ELSE inserted_report.id
        reports_after == IF result # {} THEN db.reports
                         ELSE db.reports \cup {inserted_report}
        db_loop == [db EXCEPT !.reports = reports_after]
        acc == process_metrics(
                   [metrics_to_upsert |-> <<>>, definitions_to_upsert |-> <<>>,
                    stats |-> [inserted |-> 0, skipped |-> 0, warnings |-> <<>>]],
                   db_loop, profile_id, report_id, validate, tests_dict)
    IN  [reports |-> reports_after,
         metrics |-> upsert_metrics(db.metrics, acc.metrics_to_upsert),
         metric_definitions |->
             upsert_definitions(db.metric_definitions, acc.definitions_to_upsert),
         metrics_to_upsert |-> acc.metrics_to_upsert,
         definitions_to_upsert |-> acc.definitions_to_upsert,
         report_id |-> report_id,
         stats |-> [acc.stats EXCEPT !.inserted = Len(acc.metrics_to_upsert)]]

---------------------------------------------------------------------------
(* Spec: sequential save_report calls on an initially empty store *)

MaxCalls == 2   \* save_report calls in one behaviour
MaxTests == 2   \* metrics in one extraction

Profiles == {"p1", "p2"}

Dates == {"2024-01-15", "2024-02-20"}

MetricNames == {"Hemoglobin", "WBC"}

\* one entry of the extraction's tests
Data(value, ref_low, ref_high) ==
    [value |-> value, unit |-> "g/dL", ref_low |-> ref_low, ref_high |-> ref_high, flag |-> None]

\* the extracted entries: 7 is 600% above 1; 13 is 30% above 10 and 40 is 100% above 20;
\* a zero ref_low with a missing ref_high; a missing value; an unreadable value;
\* -6 is 186% below 7, and 1300% below the median 0.5 of 7 and -6
MetricData ==
    {Data(Num(1), Num(10), Num(20)),
     Data(Num(7), Num(13), Num(40)),
     Data(Num(-6), Num(10), Num(20)),
     Data(Num(1), Num(0), None),
     Data(None, Num(10), Num(20)),
     Data(NonNumeric, Num(10), Num(20))}

\* tests_dict as the list of its items, in insertion order; the names are distinct
TestsInputs ==
    {t \in UNION {[1..n -> [name : MetricNames, data : MetricData]] : n \in 0..MaxTests} :
        \A i, j \in 1..Len(t) : i # j => t[i].name # t[j].name}

NoCall ==
    [called |-> FALSE, profile_id |-> "", sample_date |-> "", tests_dict |-> <<>>,
     validate |-> FALSE, pre |-> [reports |-> {}, metrics |-> {}, metric_definitions |-> {}],
     metrics_to_upsert |-> <<>>, definitions_to_upsert |-> <<>>, report_id |-> 0,
     stats |-> [inserted |-> 0, skipped |-> 0, warnings |-> <<>>]]

Init ==
    /\ pc = "db"
    /\ vArgs = IdleVArgs
    /\ vResult = IdleVResult
    /\ rArgs = IdleRArgs
    /\ rResult = IdleRResult
    /\ reports = {}
    /\ metrics = {}
    /\ metric_definitions = {}
    /\ calls = 0
    /\ last = NoCall
    /\ NoSheet

SaveReport ==
    /\ pc = "db"
    /\ calls < MaxCalls
    /\ \E profile_id \in Profiles, sample_date \in Dates, tests_dict \in TestsInputs,
          validate \in BOOLEAN :
          LET db == [reports |-> reports, metrics |-> metrics,
                     metric_definitions |-> metric_definitions]
          IN  \E out \in {save_report(db, profile_id, sample_date, tests_dict, validate)} :
              /\ reports' = out.reports
              /\ metrics' = out.metrics
              /\ metric_definitions' = out.metric_definitions
              /\ last' = [called |-> TRUE, profile_id |-> profile_id,
                          sample_date |-> sample_date, tests_dict |-> tests_dict,
                          validate |-> validate, pre |-> db,
                          metrics_to_upsert |-> out.metrics_to_upsert,
                          definitions_to_upsert |-> out.definitions_to_upsert,
                          report_id |-> out.report_id, stats |-> out.stats]
    /\ calls' = calls + 1
    /\ UNCHANGED <<pc, vArgs, vResult, rArgs, rResult>>
    /\ UNCHANGED sheetVars

Next == SaveReport

Spec == Init /\ [][Next]_vars

---------------------------------------------------------------------------
(* Properties of save_report, checked under Spec *)

\* the names of the observations the last call queued
QueuedNames == {last.metrics_to_upsert[i].name : i \in 1..Len(last.metrics_to_upsert)}

\* the values stored before the last call under this name in reports of its profile
PriorValues(name) ==
    LET rows == rows_as_list({m \in last.pre.metrics :
                    /\ m.name = name
                    /\ \E r \in last.pre.reports :
                          r.id = m.report_id /\ r.profile_id = last.profile_id})
    IN  [i \in 1..Len(rows) |-> rows[i].value]

\* the validator's verdict on the i-th metric of the last call's extraction
Verdict(i) ==
    validate_metric_value(last.tests_dict[i].name, float(last.tests_dict[i].data.value),
                          PriorValues(last.tests_dict[i].name), 500)

\* the i-th metric has a numeric value that the validator finds invalid
RejectedByValidator(i) == float_ok(last.tests_dict[i].data.value) /\ ~Verdict(i).valid

\* the i-th metric has a value that is present but not numeric
Unreadable(i) ==
    ~IsNone(last.tests_dict[i].data.value) /\ ~float_ok(last.tests_dict[i].data.value)

\* the stored observations of a report under a name
Observations(db_metrics, report_id, name) ==
    {m \in db_metrics : m.report_id = report_id /\ m.name = name}

\* C9: with validate=True a metric the validator rejects against the stored history of
\* its profile and name is not queued and not written; it is counted as skipped and
\* the summary holds a warning naming it.
C9_RejectedNeverPersisted ==
    (last.called /\ last.validate)
        => /\ \A i \in 1..Len(last.tests_dict) :
                 RejectedByValidator(i)
                    => /\ last.tests_dict[i].name \notin QueuedNames
                       /\ Observations(metrics, last.report_id, last.tests_dict[i].name)
                            = Observations(last.pre.metrics, last.report_id,
                                           last.tests_dict[i].name)
                       /\ \E k \in 1..Len(last.stats.warnings) :
                             last.stats.warnings[k]
                               = Warning(last.tests_dict[i].name, <<"", Verdict(i).reason>>)
           /\ last.stats.skipped
                = Cardinality({i \in 1..Len(last.tests_dict) :
                                 RejectedByValidator(i) \/ Unreadable(i)})

\* the value 7 was rejected against the stored history 1 while the other metric of the
\* same extraction was written
C9_Witness ==
    /\ last.called /\ last.validate
    /\ Len(last.tests_dict) = 2
    /\ RejectedByValidator(1)
    /\ PriorValues(last.tests_dict[1].name) = <<Num(1)>>
    /\ last.tests_dict[1].data.value = Num(7)
    /\ last.stats.skipped = 1
    /\ last.stats.inserted = 1

\* the reports of a (profile_id, sample_date) pair
ReportsOf(db_reports, profile_id, sample_date) ==
    {r \in db_reports : r.profile_id = profile_id /\ r.sample_date = sample_date}

\* C10: there is at most one report row per (profile_id, sample_date); a call for a pair
\* that already has a report returns that report's id and inserts no report row.
C10_OneReportPerProfileAndDate ==
    /\ \A p \in Profiles, d \in Dates : Cardinality(ReportsOf(reports, p, d)) <= 1
    /\ \A r \in reports : Cardinality({x \in reports : x.id = r.id}) = 1
    /\ last.called
         => \A r \in ReportsOf(last.pre.reports, last.profile_id, last.sample_date) :
               last.report_id = r.id /\ reports = last.pre.reports

\* a second ingestion for a stored (profile_id, sample_date) returned the stored report
C10_Witness ==
    /\ last.called
    /\ ReportsOf(last.pre.reports, last.profile_id, last.sample_date) # {}
    /\ Cardinality(reports) = 1
    /\ last.report_id = 1
    /\ last.stats.inserted = 2

\* the i-th observation the last call queued
Queued(i) == last.metrics_to_upsert[i]

\* C11: the store holds at most one observation per (report_id, name); after a call
\* every observation it queued is the only stored row of its key, so a value accepted
\* for a key that already had an observation replaces the stored one.
C11_OneObservationPerReportAndName ==
    /\ \A m1, m2 \in metrics :
          (m1.report_id = m2.report_id /\ m1.name = m2.name) => m1 = m2
    /\ last.called
         => \A i \in 1..Len(last.metrics_to_upsert) :
               Observations(metrics, Queued(i).report_id, Queued(i).name) = {Queued(i)}

\* the report held the value 7 under a name; a later ingestion of the same report
\* accepted 1 (85% below the median 7) and the store now holds 1 alone
C11_Witness ==
    /\ last.called /\ last.validate
    /\ \E i \in 1..Len(last.metrics_to_upsert) :
          /\ Queued(i).value = Num(1)
          /\ \E m \in Observations(last.pre.metrics, last.report_id, Queued(i).name) :
                m.value = Num(7)
          /\ Observations(metrics, last.report_id, Queued(i).name) = {Queued(i)}

\* C16 as stated: once an observation is stored, no later call changes its value, unit,
\* flag or reference snapshot, i.e. every row stored before a call is stored after it.
C16_ObservationImmutable ==
    last.called => \A m \in last.pre.metrics : m \in metrics

\* C16: a stored observation is replaced only by a call on the same report that queues
\* an observation under the same name; every other stored observation is kept as it
\* is, and no key loses its observation.
C16_ChangedOnlyByReingestion ==
    last.called
        => \A m \in last.pre.metrics :
              /\ (m.report_id # last.report_id \/ m.name \notin QueuedNames) => m \in metrics
              /\ Observations(metrics, m.report_id, m.name) # {}

\* a second ingestion of a report replaced one stored observation and, having rejected
\* the value for the other name, left that one as it was
C16_Witness ==
    /\ last.called /\ last.validate
    /\ \E m \in last.pre.metrics :
          m.report_id = last.report_id /\ m.name \notin QueuedNames /\ m \in metrics
    /\ \E m \in last.pre.metrics : m \notin metrics
    /\ last.stats.skipped = 1

\* the i-th definition update the last call queued
QueuedDefinition(i) == last.definitions_to_upsert[i]

\* the extracted entry of the last call under a name
Extracted(name) ==
    last.tests_dict[CHOOSE i \in 1..Len(last.tests_dict) : last.tests_dict[i].name = name].data

\* the definitions of the last call's profile under a name
Definitions(db_definitions, name) ==
    {d \in db_definitions : d.profile_id = last.profile_id /\ d.name = name}

\* the (ref_low, ref_high) stored under a name before the last call
PriorReference(name) ==
    IF Definitions(last.pre.metric_definitions, name) = {} THEN <<None, None>>
    ELSE LET row == CHOOSE d \in Definitions(last.pre.metric_definitions, name) : TRUE
         IN  <<row.ref_low, row.ref_high>>

\* the reconciler lets the extracted reference replace the stored one
ShouldUpdate(existing_ref, new_ref, ref_type) ==
    validate_reference_change(existing_ref, new_ref, ref_type).should_update

\* C12: a queued definition update names ref_low exactly when the reconciler returned
\* should_update for ref_low and the extracted ref_low is not null, and then with the
\* extracted value; likewise and independently for ref_high; a field the update does
\* not name holds on the stored definition the value it held before the call.
C12_PartialDefinitionUpdate ==
    last.called
        => \A i \in 1..Len(last.definitions_to_upsert) :
              LET q == QueuedDefinition(i)
                  data == Extracted(q.name)
                  prior == PriorReference(q.name)
                  low == ShouldUpdate(prior[1], data.ref_low, "ref_low") /\ ~IsNone(data.ref_low)
                  high == ShouldUpdate(prior[2], data.ref_high, "ref_high")
                              /\ ~IsNone(data.ref_high)
              IN  /\ q.ref_low = (IF low THEN data.ref_low ELSE Absent)
                  /\ q.ref_high = (IF high THEN data.ref_high ELSE Absent)
                  /\ \E d \in Definitions(metric_definitions, q.name) :
                        /\ Definitions(metric_definitions, q.name) = {d}
                        /\ d.ref_low = (IF low THEN data.ref_low ELSE prior[1])
                        /\ d.ref_high = (IF high THEN data.ref_high ELSE prior[2])

\* the stored references were (10, 20) and the extraction brought (13, 40): the update
\* names ref_low alone and the stored references are (13, 20)
C12_Witness ==
    /\ last.called
    /\ \E i \in 1..Len(last.definitions_to_upsert) :
          /\ PriorReference(QueuedDefinition(i).name) = <<Num(10), Num(20)>>
          /\ QueuedDefinition(i).ref_low = Num(13)
          /\ QueuedDefinition(i).ref_high = Absent
          /\ \E d \in Definitions(metric_definitions, QueuedDefinition(i).name) :
                d.ref_low = Num(13) /\ d.ref_high = Num(20)

\* C13: a definition whose ref_low (ref_high) is not null before a call is still stored
\* after it with a ref_low (ref_high) that is not null.
C13_ReferenceNeverErased ==
    last.called
        => \A d \in last.pre.metric_definitions :
              \E e \in metric_definitions :
                  /\ e.profile_id = d.profile_id /\ e.name = d.name
                  /\ ~IsNone(d.ref_low) => ~IsNone(e.ref_low)
                  /\ ~IsNone(d.ref_high) => ~IsNone(e.ref_high)

\* the stored references were (10, 20); an accepted extraction without ref_high was
\* written and ref_high is still 20
C13_Witness ==
    /\ last.called
    /\ \E i \in 1..Len(last.definitions_to_upsert) :
          /\ PriorReference(QueuedDefinition(i).name) = <<Num(10), Num(20)>>
          /\ IsNone(Extracted(QueuedDefinition(i).name).ref_high)
          /\ \E d \in Definitions(metric_definitions, QueuedDefinition(i).name) :
                d.ref_high = Num(20)

\* the names the warnings of the last call's summary carry
WarnedNames == {last.stats.warnings[k].name : k \in 1..Len(last.stats.warnings)}

\* C14: every metric of the extraction that the call did not queue for writing (its
\* value missing, not numeric or rejected by the validator) is named by a warning of
\* the returned summary.
C14_NoSilentDataLoss ==
    last.called
        => \A i \in 1..Len(last.tests_dict) :
              last.tests_dict[i].name \notin QueuedNames
                 => last.tests_dict[i].name \in WarnedNames

---------------------------------------------------------------------------
(* SpecFault: save_report calls during which one request to the store may raise *)

\* no request raises
NoFault == [kind |-> "none", at |-> 0]

\* the request that raises: the first lookup made for the at-th metric of the
\* extraction, or the batch write because the store refuses its at-th row
Faults ==
    {NoFault} \cup {[kind |-> k, at |-> i] : k \in {"lookup", "write"}, i \in 1..MaxTests}

\* the loop makes a lookup for the i-th metric when its value passed float():
\* get_existing_values_for_metric under validate, else get_existing_reference
makes_lookup(tests_dict, i) ==
    i <= Len(tests_dict) /\ float_ok(tests_dict[i].data.value)

\* save_report when the request named by fault raises: no handler of save_report
\* catches it, so the call ends there. The report row is inserted before the loop;
\* the batches are written after it, each in one request.
save_report_with_fault(db, profile_id, sample_date, tests_dict, validate, fault) ==
    LET out == save_report(db, profile_id, sample_date, tests_dict, validate)
        raised == \/ fault.kind = "lookup" /\ makes_lookup(tests_dict, fault.at)
                  \/ fault.kind = "write" /\ fault.at <= Len(out.metrics_to_upsert)
    IN  IF raised
        THEN [reports |-> out.reports, metrics |-> db.metrics,
              metric_definitions |-> db.metric_definitions, raised |-> TRUE]
        ELSE [reports |-> out.reports, metrics |-> out.metrics,
              metric_definitions |-> out.metric_definitions, raised |-> FALSE]

FaultProfiles == {"p1"}

FaultDates == {"2024-01-15"}

NoFaultCall ==
    [called |-> FALSE, raised |-> FALSE, fault |-> NoFault, profile_id |-> "",
     sample_date |-> "", tests_dict |-> <<>>, validate |-> FALSE,
     pre |-> [reports |-> {}, metrics |-> {}, metric_definitions |-> {}]]

InitFault ==
    /\ pc = "db-fault"
    /\ vArgs = IdleVArgs
    /\ vResult = IdleVResult
    /\ rArgs = IdleRArgs
    /\ rResult = IdleRResult
    /\ reports = {}
    /\ metrics = {}
    /\ metric_definitions = {}
    /\ calls = 0
    /\ last = NoFaultCall
    /\ NoSheet

SaveReportWithFault ==
    /\ pc = "db-fault"
    /\ calls < MaxCalls
    /\ \E profile_id \in FaultProfiles, sample_date \in FaultDates, tests_dict \in TestsInputs,
          validate \in BOOLEAN, fault \in Faults :
          LET db == [reports |-> reports, metrics |-> metrics,
                     metric_definitions |-> metric_definitions]
          IN  \E out \in {save_report_with_fault(db, profile_id, sample_date, tests_dict,
                                                 validate, fault)} :
              /\ reports' = out.reports
              /\ metrics' = out.metrics
              /\ metric_definitions' = out.metric_definitions
              /\ last' = [called |-> TRUE, raised |-> out.raised, fault |-> fault,
                          profile_id |-> profile_id, sample_date |-> sample_date,
                          tests_dict |-> tests_dict, validate |-> validate, pre |-> db]
    /\ calls' = calls + 1
    /\ UNCHANGED <<pc, vArgs, vResult, rArgs, rResult>>
    /\ UNCHANGED sheetVars

NextFault == SaveReportWithFault

SpecFault == InitFault /\ [][NextFault]_vars

\* the batch the last call queues when no request raises
FaultFreeBatch ==
    save_report(last.pre, last.profile_id, last.sample_date, last.tests_dict,
                last.validate).metrics_to_upsert

\* the name of the metric whose request raised in the last call
FailedName ==
    IF last.fault.kind = "lookup" THEN last.tests_dict[last.fault.at].name
    ELSE FaultFreeBatch[last.fault.at].name

\* C15: when the lookup or the write for one metric raises during a call, every other
\* metric the call would have written is stored afterwards.
C15_FailureDoesNotAbortBatch ==
    (last.called /\ last.raised)
        => \A i \in 1..Len(FaultFreeBatch) :
              FaultFreeBatch[i].name # FailedName => FaultFreeBatch[i] \in metrics

---------------------------------------------------------------------------
(* Normalizer: metric names, ordered dicts and the synonym tables *)

\* a metric name: the letters (stem, spelled in lower case and in ASCII), the casing
\* ("upper" as in HGB, "mixed" as in Hgb, "lower" as in hgb) and a trailing '#' or '%'
N(stem, form, suffix) == [stem |-> stem, form |-> form, suffix |-> suffix]

\* metric.endswith('#'), metric.endswith('%')
endswith_hash(metric) == metric.suffix = "#"

endswith_percent(metric) == metric.suffix = "%"

\* metric + "#", for a metric without suffix
hash_variant(metric) == [metric EXCEPT !.suffix = "#"]

\* metric.lower()
lower(metric) == [metric EXCEPT !.form = "lower"]

\* metric.isupper()
isupper(metric) == metric.form = "upper"

\* n.rstrip('#%')
rstrip_suffix(metric) == [metric EXCEPT !.suffix = ""]

\* a dict, in insertion order, as the list of its items
Item(key, value) == [key |-> key, value |-> value]

dict_has(dict, key) == \E i \in 1..Len(dict) : dict[i].key = key

dict_get(dict, key) == dict[CHOOSE i \in 1..Len(dict) : dict[i].key = key].value

\* dict[key] = value: a key the dict holds keeps its position
dict_set(dict, key, value) ==
    IF dict_has(dict, key)
    THEN [i \in 1..Len(dict) |-> IF dict[i].key = key THEN Item(key, value) ELSE dict[i]]
    ELSE Append(dict, Item(key, value))

\* {**first, **second}
\* (faulty variant: the entries of the first dict win)
RECURSIVE dict_merge_first_wins(_, _)
dict_merge_first_wins(first, second) ==
    IF second = <<>> THEN first
    ELSE dict_merge_first_wins(
             IF dict_has(first, Head(second).key) THEN first
             ELSE Append(first, Head(second)),
             Tail(second))
RECURSIVE dict_merge(_, _)
dict_merge(first, second) ==
    IF second = <<>> THEN first
    ELSE dict_merge(dict_set(first, Head(second).key, Head(second).value), Tail(second))

\* the keys of a dict
dict_keys(dict) == {dict[i].key : i \in 1..Len(dict)}

STATIC_TYPO_CORRECTIONS ==
    <<Item(N("sedi.mentasyon", "upper", ""), N("sedimantasyon", "mixed", "")),
      Item(N("sedimentasyon", "mixed", ""), N("sedimantasyon", "mixed", "")),
      Item(N("sedimentasyon", "upper", ""), N("sedimantasyon", "mixed", "")),
      Item(N("hgb", "upper", ""), N("hemoglobin", "mixed", "")),
      Item(N("hgb", "mixed", ""), N("hemoglobin", "mixed", "")),
      Item(N("crp", "upper", ""), N("c-reaktif protein", "mixed", "")),
      Item(N("crp (turbidimetrik)", "mixed", ""), N("c-reaktif protein", "mixed", "")),
      Item(N("crp tuerbidimetrik", "mixed", ""), N("c-reaktif protein", "mixed", "")),
      Item(N("crp (tuerbidimetrik)", "mixed", ""), N("c-reaktif protein", "mixed", ""))>>

COMMON_ABBREVIATIONS ==
    <<Item(N("hgb", "upper", ""), N("hemoglobin", "mixed", "")),
      Item(N("hgb", "mixed", ""), N("hemoglobin", "mixed", "")),
      Item(N("plt", "upper", ""), N("trombosit", "mixed", "")),
      Item(N("wbc", "upper", ""), N("loekosit", "mixed", "")),
      Item(N("rbc", "upper", ""), N("eritrosit", "mixed", "")),
      Item(N("hct", "upper", ""), N("hematokrit", "mixed", "")),
      Item(N("hct", "mixed", ""), N("hematokrit", "mixed", "")),
      Item(N("mcv", "upper", ""), N("mcv", "upper", "")),
      Item(N("mch", "upper", ""), N("mch", "upper", "")),
      Item(N("mchc", "upper", ""), N("mchc", "upper", "")),
      Item(N("neu", "upper", "#"), N("noetrofil", "mixed", "#")),
      Item(N("neu", "upper", "%"), N("noetrofil", "mixed", "%")),
      Item(N("lym", "upper", "#"), N("lenfosit", "mixed", "#")),
      Item(N("lym", "upper", "%"), N("lenfosit", "mixed", "%")),
      Item(N("mon", "upper", "#"), N("monosit", "mixed", "#")),
      Item(N("mon", "upper", "%"), N("monosit", "mixed", "%")),
      Item(N("eos", "upper", "#"), N("eozinofil", "mixed", "#")),
      Item(N("eos", "upper", "%"), N("eozinofil", "mixed", "%")),
      Item(N("baso", "upper", "#"), N("bazofil", "mixed", "#")),
      Item(N("baso", "upper", "%"), N("bazofil", "mixed", "%")),
      Item(N("alt", "upper", ""), N("alanin aminotransferaz", "mixed", "")),
      Item(N("ast", "upper", ""), N("aspartat transaminaz", "mixed", "")),
      Item(N("ggt", "upper", ""), N("ggt - gamma glutamil transferaz", "mixed", "")),
      Item(N("alp", "upper", ""), N("alkalen fosfataz", "mixed", "")),
      Item(N("bun", "upper", ""), N("kan uere azotu", "mixed", "")),
      Item(N("crp", "upper", ""), N("c-reaktif protein", "mixed", "")),
      Item(N("tsh", "upper", ""), N("tsh", "upper", "")),
      Item(N("ldh", "upper", ""), N("ldh - laktik dehidrogenaz", "mixed", ""))>>

---------------------------------------------------------------------------
(* identify_synonyms *)

\* Rule 1 of _auto_detect_synonyms: a name without suffix maps to its '#' variant when
\* the names hold it
RECURSIVE base_to_hash(_, _, _)
base_to_hash(auto_map, metric_set, metric_names) ==
    IF metric_names = <<>> THEN auto_map
    ELSE LET metric == Head(metric_names)
             applies == /\ ~endswith_hash(metric) /\ ~endswith_percent(metric)
                        /\ hash_variant(metric) \in metric_set
         IN  base_to_hash(
                 IF applies THEN dict_set(auto_map, metric, hash_variant(metric))
                 ELSE auto_map,
                 metric_set, Tail(metric_names))

\* Rule 2: an abbreviation maps to its full name when the names hold both
RECURSIVE abbreviations(_, _, _)
abbreviations(auto_map, metric_set, table) ==
    IF table = <<>> THEN auto_map
    ELSE LET abbrev == Head(table).key
             full_name == Head(table).value
         IN  abbreviations(
                 IF abbrev \in metric_set /\ full_name \in metric_set
                 THEN dict_set(auto_map, abbrev, full_name) ELSE auto_map,
                 metric_set, Tail(table))

\* Rule 3: of two names that differ by case only, the all-caps one maps to the other;
\* seen_lower keeps the first name met under each lower-case spelling
RECURSIVE case_duplicates(_, _, _)
case_duplicates(auto_map, seen_lower, metric_names) ==
    IF metric_names = <<>> THEN auto_map
    ELSE LET metric == Head(metric_names)
             rest == Tail(metric_names)
         IN  IF dict_has(seen_lower, lower(metric))
             THEN LET existing == dict_get(seen_lower, lower(metric))
                  IN  IF isupper(metric) /\ ~isupper(existing)
                      THEN case_duplicates(dict_set(auto_map, metric, existing),
                                           seen_lower, rest)
                      ELSE IF ~isupper(metric) /\ isupper(existing)
                      THEN case_duplicates(dict_set(auto_map, existing, metric),
                                           seen_lower, rest)
                      ELSE case_duplicates(auto_map, seen_lower, rest)
             ELSE case_duplicates(auto_map, dict_set(seen_lower, lower(metric), metric),
                                  rest)

\* list -> set
set_of(list) == {list[i] : i \in 1..Len(list)}

auto_detect_synonyms(metric_names) ==
    LET metric_set == set_of(metric_names)
        rule1 == base_to_hash(<<>>, metric_set, metric_names)
        rule2 == abbreviations(rule1, metric_set, COMMON_ABBREVIATIONS)
    IN  case_duplicates(rule2, <<>>, metric_names)

\* the static corrections of the names present
RECURSIVE static_corrections(_, _, _)
static_corrections(static_map, metric_set, table) ==
    IF table = <<>> THEN static_map
    ELSE static_corrections(
             IF Head(table).key \in metric_set
             THEN dict_set(static_map, Head(table).key, Head(table).value)
             ELSE static_map,
             metric_set, Tail(table))

get_static_synonym_map(metric_names) ==
    static_corrections(<<>>, set_of(metric_names), STATIC_TYPO_CORRECTIONS)

identify_synonyms(metric_names) ==
    IF metric_names = <<>> THEN <<>>
    ELSE dict_merge(auto_detect_synonyms(metric_names), get_static_synonym_map(metric_names))

---------------------------------------------------------------------------
(* Sheets: the data sheet (one row per metric, one column per sample date) and the
   reference sheet (unit, low, high per metric); the header row is left out *)

\* a row: row[0] is the metric name, row[1:] are the cells
Row(metric, cells) == [metric |-> metric, cells |-> cells]

\* cell.strip() on the cells of the model
strip(cell) == IF cell = " " THEN "" ELSE cell

\* float(cell) on a stripped, non-empty cell: the numerals parse, any other text raises
\* ValueError
float_cell(cell) ==
    CASE cell = "0" -> Num(0)
      [] cell = "2" -> Num(2)
      [] cell = "5" -> Num(5)
      [] OTHER -> NonNumeric

\* the rows of a sheet under a metric name
row_index_has(sheet, metric) == \E i \in 1..Len(sheet) : sheet[i].metric = metric

\* row_index[metric]: the last row under the name
row_index(sheet, metric) ==
    CHOOSE i \in 1..Len(sheet) :
        /\ sheet[i].metric = metric
        /\ \A j \in 1..Len(sheet) : sheet[j].metric = metric => j <= i

---------------------------------------------------------------------------
(* _validate_synonym_mappings *)

\* groups[unified].append(original), over the items of the map in order
RECURSIVE group_by_unified(_, _)
group_by_unified(groups, synonym_map) ==
    IF synonym_map = <<>> THEN groups
    ELSE LET original == Head(synonym_map).key
             unified == Head(synonym_map).value
         IN  group_by_unified(
                 IF dict_has(groups, unified)
                 THEN dict_set(groups, unified, Append(dict_get(groups, unified), original))
                 ELSE Append(groups, Item(unified, <<original>>)),
                 Tail(synonym_map))

\* ref_ranges: metric -> (low, high) of the reference sheet, stripped
RECURSIVE load_ref_ranges(_, _)
load_ref_ranges(ref_ranges, ref_data) ==
    IF ref_data = <<>> THEN ref_ranges
    ELSE load_ref_ranges(
             dict_set(ref_ranges, Head(ref_data).metric,
                      <<strip(Head(ref_data).cells[2]), strip(Head(ref_data).cells[3])>>),
             Tail(ref_data))

\* parse_range: (low, high) as floats, None for an empty cell; a cell that does not
\* parse makes the whole range None
parse_range(rng_tuple) ==
    LET low == IF rng_tuple[1] # "" THEN float_cell(rng_tuple[1]) ELSE None
        high == IF rng_tuple[2] # "" THEN float_cell(rng_tuple[2]) ELSE None
    IN  IF low = NonNumeric \/ high = NonNumeric THEN [parsed |-> FALSE, low |-> None, high |-> None]
        ELSE [parsed |-> TRUE, low |-> low, high |-> high]

\* the upper bounds of the group's names that have a parsed range with a high value
high_values(original_names, ref_ranges) ==
    {i \in 1..Len(original_names) :
        /\ dict_has(ref_ranges, original_names[i])
        /\ parse_range(dict_get(ref_ranges, original_names[i])).parsed
        /\ ~IsNone(parse_range(dict_get(ref_ranges, original_names[i])).high)}

high_of(original_names, ref_ranges, i) ==
    parse_range(dict_get(ref_ranges, original_names[i])).high[2]

\* "max_high > 0 and (max_high / min_high) > 2.0" over the high values of a group:
\* "warn", "quiet", or "raise" when the division is by zero
range_check(original_names, ref_ranges) ==
    LET idx == high_values(original_names, ref_ranges)
        highs == {high_of(original_names, ref_ranges, i) : i \in idx}
        max_high == CHOOSE h \in highs : \A g \in highs : g <= h
        min_high == CHOOSE h \in highs : \A g \in highs : h <= g
    IN  IF Cardinality(idx) <= 1 THEN "quiet"
        ELSE IF max_high <= 0 THEN "quiet"
        ELSE IF min_high = 0 THEN "raise"
        ELSE IF (min_high > 0 /\ max_high > 2 * min_high)
                \/ (min_high < 0 /\ max_high < 2 * min_high) THEN "warn"
        ELSE "quiet"

any_hash(original_names) ==
    \E i \in 1..Len(original_names) : endswith_hash(original_names[i])

any_percent(original_names) ==
    \E i \in 1..Len(original_names) : endswith_percent(original_names[i])

\* Rule 1 of the validation: the group holds a '#' name and a '%' name
mixes_hash_and_percent(original_names) ==
    any_hash(original_names) /\ any_percent(original_names)

\* Rule 3: one base name, met without suffix, with '#' and with '%'
base_with_both(original_names) ==
    /\ Cardinality({rstrip_suffix(original_names[i]) : i \in 1..Len(original_names)}) = 1
    /\ Len(original_names) > 1
    /\ \E i \in 1..Len(original_names) :
          ~endswith_hash(original_names[i]) /\ ~endswith_percent(original_names[i])
    /\ any_hash(original_names) /\ any_percent(original_names)

\* validated_map[original] = unified_name for the names of a group
RECURSIVE add_group(_, _, _)
add_group(validated_map, unified_name, original_names) ==
    IF original_names = <<>> THEN validated_map
    ELSE add_group(dict_set(validated_map, Head(original_names), unified_name),
                   unified_name, Tail(original_names))

\* "for unified_name, original_names in groups.items()": the state of the loop is the
\* validated map, the groups warned about, and whether the division raised
RECURSIVE validate_groups(_, _, _)
validate_groups(acc, groups, ref_ranges) ==
    IF groups = <<>> \/ acc.raised THEN acc
    ELSE LET unified_name == Head(groups).key
             original_names == Head(groups).value
             check == range_check(original_names, ref_ranges)
         IN  IF mixes_hash_and_percent(original_names)
             THEN validate_groups(acc, Tail(groups), ref_ranges)
             ELSE IF check = "raise"
             THEN [acc EXCEPT !.raised = TRUE]
             ELSE LET warned == IF check = "warn" THEN acc.warned \cup {unified_name}
                                ELSE acc.warned
                  IN  IF base_with_both(original_names)
                      THEN validate_groups([acc EXCEPT !.warned = warned],
                                           Tail(groups), ref_ranges)
                      ELSE validate_groups(
                               [acc EXCEPT !.warned = warned,
                                           !.validated_map =
                                               add_group(@, unified_name, original_names)],
                               Tail(groups), ref_ranges)

\* _validate_synonym_mappings against the reference sheet: the validated map, or
\* raised when ZeroDivisionError leaves the function
validate_synonym_mappings(synonym_map, ref_data) ==
    IF synonym_map = <<>> THEN [raised |-> FALSE, warned |-> {}, validated_map |-> <<>>]
    ELSE validate_groups([raised |-> FALSE, warned |-> {}, validated_map |-> <<>>],
                         group_by_unified(<<>>, synonym_map),
                         load_ref_ranges(<<>>, ref_data))

---------------------------------------------------------------------------
(* consolidate_columns *)

\* the list without the entries at the given positions
keep_rows(sheet, removed) ==
    LET Kept(i) == i \notin removed
        idx == SelectSeq([i \in 1..Len(sheet) |-> i], Kept)
    IN  [k \in 1..Len(idx) |-> sheet[idx[k]]]

\* "if not unified_val and orig_val: data[unified_idx][col] = orig_val" over the first
\* cols cells of the two rows
merge_row(sheet, unified_idx, orig_idx, cols) ==
    [sheet EXCEPT ![unified_idx].cells =
        [c \in 1..Len(@) |->
            IF c <= cols /\ strip(@[c]) = "" /\ strip(sheet[orig_idx].cells[c]) # ""
            THEN strip(sheet[orig_idx].cells[c]) ELSE @[c]]]

\* "for orig_name in existing": the rows of the group's names are merged in group order
RECURSIVE merge_existing(_, _, _, _)
merge_existing(sheet, unified_name, existing, cols) ==
    IF existing = <<>> THEN sheet
    ELSE merge_existing(
             IF Head(existing) = unified_name THEN sheet
             ELSE merge_row(sheet, row_index(sheet, unified_name),
                            row_index(sheet, Head(existing)), cols),
             unified_name, Tail(existing), cols)

\* one pass of "for unified_name, original_names in groups.items()": the unified row
\* is appended, empty, when the sheet has a row of the group but none under the
\* unified name
merge_group(sheet, unified_name, original_names, cols) ==
    LET InSheet(name) == row_index_has(sheet, name)
        existing == SelectSeq(original_names, InSheet)
        new_row == Row(unified_name, [c \in 1..Len(sheet[1].cells) |-> ""])
    IN  IF existing = <<>> THEN sheet
        ELSE merge_existing(IF row_index_has(sheet, unified_name) THEN sheet
                            ELSE Append(sheet, new_row),
                            unified_name, existing, cols)

RECURSIVE merge_groups(_, _, _)
merge_groups(sheet, groups, cols) ==
    IF groups = <<>> THEN sheet
    ELSE merge_groups(merge_group(sheet, Head(groups).key, Head(groups).value, cols),
                      Tail(groups), cols)

\* rows_to_remove: the rows of the names that are mapped to another name
rows_to_remove(sheet, groups) ==
    UNION {{row_index(sheet, groups[g].value[i]) :
               i \in {j \in 1..Len(groups[g].value) :
                        /\ groups[g].value[j] # groups[g].key
                        /\ row_index_has(sheet, groups[g].value[j])}} :
           g \in 1..Len(groups)}

\* metric_remap.get(metric, metric)
\* (faulty variant: the names of the order are not mapped to their unified names)
remap_none(groups, metric) == metric
remap(groups, metric) ==
    IF \E g \in 1..Len(groups) : \E i \in 1..Len(groups[g].value) :
          groups[g].value[i] = metric /\ metric # groups[g].key
    THEN groups[CHOOSE g \in 1..Len(groups) : \E i \in 1..Len(groups[g].value) :
                    groups[g].value[i] = metric /\ metric # groups[g].key].key
    ELSE metric

\* updated_row_order: the order with each name replaced by its unified name, first
\* occurrence kept
RECURSIVE update_row_order(_, _, _)
update_row_order(updated_row_order, groups, original_row_order) ==
    IF original_row_order = <<>> THEN updated_row_order
    ELSE LET unified == remap(groups, Head(original_row_order))
         IN  update_row_order(
                 IF unified \in set_of(updated_row_order) THEN updated_row_order
                 ELSE Append(updated_row_order, unified),
                 groups, Tail(original_row_order))

\* the stems of the model's names in alphabetical order; none is a prefix of another,
\* so two lower-case names compare by stem and then by suffix ("" < "#" < "%")
StemsAlphabetical == <<"hemoglobin", "hgb", "lenfosit", "lym", "sedimentasyon">>

stem_rank(stem) == CHOOSE i \in 1..Len(StemsAlphabetical) : StemsAlphabetical[i] = stem

suffix_rank(suffix) == IF suffix = "" THEN 0 ELSE IF suffix = "#" THEN 1 ELSE 2

\* a.lower() < b.lower()
lower_lt(a, b) ==
    \/ stem_rank(a.stem) < stem_rank(b.stem)
    \/ a.stem = b.stem /\ suffix_rank(a.suffix) < suffix_rank(b.suffix)

\* order_map[metric]: the position of the name in the order, the last one if repeated
order_map(original_row_order, metric) ==
    CHOOSE i \in 1..Len(original_row_order) :
        /\ original_row_order[i] = metric
        /\ \A j \in 1..Len(original_row_order) : original_row_order[j] = metric => j <= i

\* sort_key(a) < sort_key(b): (0, position) for the names of the order, (1, lower-case
\* name) for the others
sort_key_lt(original_row_order, a, b) ==
    LET known == set_of(original_row_order)
    IN  IF a \in known /\ b \in known
        THEN order_map(original_row_order, a) < order_map(original_row_order, b)
        ELSE IF a \in known THEN TRUE
        ELSE IF b \in known THEN FALSE
        ELSE lower_lt(a, b)

\* sorted(rows, key=sort_key): stable, a row goes behind the rows of an equal key
RECURSIVE insert_by_key(_, _, _)
insert_by_key(sorted_rows, row, original_row_order) ==
    IF sorted_rows = <<>> THEN <<row>>
    ELSE IF sort_key_lt(original_row_order, row.metric, Head(sorted_rows).metric)
    THEN <<row>> \o sorted_rows
    ELSE <<Head(sorted_rows)>> \o insert_by_key(Tail(sorted_rows), row, original_row_order)

RECURSIVE sort_rows(_, _, _)
sort_rows(sorted_rows, rows, original_row_order) ==
    IF rows = <<>> THEN sorted_rows
    ELSE sort_rows(insert_by_key(sorted_rows, Head(rows), original_row_order),
                   Tail(rows), original_row_order)

sort_rows_by_original_order(rows, original_row_order) ==
    sort_rows(<<>>, rows, original_row_order)

\* original_row_order=None
NoOrder == [given |-> FALSE, names |-> <<>>]

GivenOrder(names) == [given |-> TRUE, names |-> names]

\* the metric names of the rows of a sheet
row_names(sheet) == [i \in 1..Len(sheet) |-> sheet[i].metric]

\* the number of cells the rows of a sheet have
width(sheet) == IF sheet = <<>> THEN 0 ELSE Len(sheet[1].cells)

\* consolidate_columns on the two sheets: the sheets afterwards, the validated map, and
\* raised when the validation raised (nothing is written then). The data sheet is
\* merged over all its columns and sorted; the reference sheet is merged over unit,
\* low and high, and skipped when it has no row
consolidate_columns(map, original_row_order, data_rows, ref_rows) ==
    IF map = <<>>
    THEN [raised |-> FALSE, warned |-> {}, validated_map |-> <<>>,
          data |-> data_rows, ref_data |-> ref_rows]
    ELSE
    LET validation == validate_synonym_mappings(map, ref_rows)
        groups == group_by_unified(<<>>, validation.validated_map)
        order == IF original_row_order.given THEN original_row_order.names
                 ELSE row_names(data_rows)
        merged == merge_groups(data_rows, groups, width(data_rows))
        new_data == keep_rows(merged, rows_to_remove(merged, groups))
        updated_row_order == update_row_order(<<>>, groups, order)
        ref_merged == merge_groups(ref_rows, groups, 3)
        new_ref_data == keep_rows(ref_merged, rows_to_remove(ref_merged, groups))
    IN  IF validation.raised
        THEN [raised |-> TRUE, warned |-> validation.warned, validated_map |-> <<>>,
              data |-> data_rows, ref_data |-> ref_rows]
        ELSE [raised |-> FALSE, warned |-> validation.warned,
              validated_map |-> validation.validated_map,
              data |-> sort_rows_by_original_order(new_data, updated_row_order),
              ref_data |-> IF ref_rows = <<>> THEN ref_rows ELSE new_ref_data]

---------------------------------------------------------------------------
(* SpecSynonyms: identify_synonyms on a list of names, then the validation of the map *)

MaxNames == 4   \* names in one list

Lenfosit == N("lenfosit", "mixed", "")
LenfositHash == N("lenfosit", "mixed", "#")
LenfositPercent == N("lenfosit", "mixed", "%")

\* Lenfosit in its three casings, with its variants and the abbreviation LYM#; the three
\* casings of HGB with HGB# and Hemoglobin; SEDIMENTASYON and Sedimentasyon
NameInputs ==
    {Lenfosit, LenfositHash, LenfositPercent,
     N("lenfosit", "upper", ""), N("lenfosit", "lower", ""),
     N("lenfosit", "upper", "#"), N("lym", "upper", "#"),
     N("hgb", "upper", ""), N("hgb", "mixed", ""), N("hgb", "lower", ""),
     N("hgb", "upper", "#"), N("hemoglobin", "mixed", ""),
     N("sedimentasyon", "upper", ""), N("sedimentasyon", "mixed", "")}

\* list(set(metrics)): distinct names in any order
NameLists ==
    {l \in UNION {[1..n -> NameInputs] : n \in 0..MaxNames} :
        \A i, j \in 1..Len(l) : i # j => l[i] # l[j]}

\* reference sheets: none, and HGB and Hgb with upper bounds 2 and 5
SynonymRefInputs ==
    {<<>>,
     <<Row(N("hgb", "upper", ""), <<"g/dL", "", "2">>),
       Row(N("hgb", "mixed", ""), <<"g/dL", "", "5">>)>>}

NoValidation == [validated |-> FALSE, raised |-> FALSE, warned |-> {}, validated_map |-> <<>>]

InitSynonyms ==
    /\ pc = "names"
    /\ vArgs = IdleVArgs
    /\ vResult = IdleVResult
    /\ rArgs = IdleRArgs
    /\ rResult = IdleRResult
    /\ reports = {}
    /\ metrics = {}
    /\ metric_definitions = {}
    /\ metric_aliases = {}
    /\ calls = 0
    /\ last = NoValidation
    /\ all_metrics \in NameLists
    /\ synonyms = <<>>
    /\ sheet_data = <<>>
    /\ reference_data \in SynonymRefInputs

IdentifySynonyms ==
    /\ pc = "names"
    /\ pc' = "identified"
    /\ synonyms' = identify_synonyms(all_metrics)
    /\ UNCHANGED <<vArgs, vResult, rArgs, rResult, reports, metrics, metric_definitions,
                   metric_aliases,
                   calls, last, all_metrics, sheet_data, reference_data>>

ValidateSynonymMappings ==
    /\ pc = "identified"
    /\ pc' = "validated"
    /\ \E out \in {validate_synonym_mappings(synonyms, reference_data)} :
          last' = [validated |-> TRUE, raised |-> out.raised, warned |-> out.warned,
                   validated_map |-> out.validated_map]
    /\ UNCHANGED <<vArgs, vResult, rArgs, rResult, reports, metrics, metric_definitions,
                   metric_aliases,
                   calls, all_metrics, synonyms, sheet_data, reference_data>>

NextSynonyms == IdentifySynonyms \/ ValidateSynonymMappings

SpecSynonyms == InitSynonyms /\ [][NextSynonyms]_vars

---------------------------------------------------------------------------
(* SpecConsolidate: consolidate_columns with a synonym map on a data sheet and a
   reference sheet *)

MaxMap == 2   \* mappings in one synonym map

SheetNames == <<Lenfosit, LenfositHash, LenfositPercent>>

\* synonym maps over the names of the sheet: a dict, so the keys are distinct; the rules
\* of identify_synonyms map a name to another name and never two names to each other,
\* but the target of one mapping can be the raw name of another
MapInputs ==
    {m \in UNION {[1..n -> [key : set_of(SheetNames), value : set_of(SheetNames)]] :
                     n \in 0..MaxMap} :
        /\ \A i \in 1..Len(m) : m[i].key # m[i].value
        /\ \A i, j \in 1..Len(m) : i # j => m[i].key # m[j].key
        /\ \A i, j \in 1..Len(m) : ~(m[i].value = m[j].key /\ m[j].value = m[i].key)}

\* the cell of the i-th name in the one date column: empty or a value of its own, and
\* for the first name also blank
DataCells(i) == {"", <<"7", "8", "9">>[i]} \cup (IF i = 1 THEN {" "} ELSE {})

\* the unit, low and high of the i-th name: the upper bound 0, or a unit of its own with
\* the upper bound 5, 2 and 5
RefCells(i) ==
    {<<"", "", "0">>,
     <<(<<"g/dL", "K/uL", "%">>)[i], "2", (<<"5", "2", "5">>)[i]>>}

\* per name: no row at all, or a data row and possibly a reference row
RowInputs(i) ==
    {[present |-> FALSE, cell |-> "", in_ref |-> FALSE, ref |-> <<"", "", "">>]}
        \cup [present : {TRUE}, cell : DataCells(i), in_ref : {FALSE}, ref : {<<"", "", "">>}]
        \cup [present : {TRUE}, cell : DataCells(i), in_ref : {TRUE}, ref : RefCells(i)]

SheetInputs == {s \in [1..Len(SheetNames) -> UNION {RowInputs(i) : i \in 1..Len(SheetNames)}] :
                   \A i \in 1..Len(SheetNames) : s[i] \in RowInputs(i)}

\* the data sheet and the reference sheet of an input
data_rows_of(s) ==
    LET Present(i) == s[i].present
        idx == SelectSeq([i \in 1..Len(SheetNames) |-> i], Present)
    IN  [k \in 1..Len(idx) |-> Row(SheetNames[idx[k]], <<s[idx[k]].cell>>)]

ref_rows_of(s) ==
    LET InRef(i) == s[i].in_ref
        idx == SelectSeq([i \in 1..Len(SheetNames) |-> i], InRef)
    IN  [k \in 1..Len(idx) |-> Row(SheetNames[idx[k]], s[idx[k]].ref)]

\* the row order handed over: None, or the order read before the last rows were added
OrderInputs(rows) ==
    {NoOrder} \cup {GivenOrder(SubSeq(row_names(rows), 1, k)) : k \in 0..(Len(rows) - 1)}

NoConsolidation ==
    [called |-> FALSE, raised |-> FALSE, warned |-> {}, validated_map |-> <<>>,
     original_row_order |-> NoOrder, data |-> <<>>, ref_data |-> <<>>]

InitConsolidate ==
    /\ pc = "sheet"
    /\ vArgs = IdleVArgs
    /\ vResult = IdleVResult
    /\ rArgs = IdleRArgs
    /\ rResult = IdleRResult
    /\ reports = {}
    /\ metrics = {}
    /\ metric_definitions = {}
    /\ metric_aliases = {}
    /\ calls = 0
    /\ last = NoConsolidation
    /\ all_metrics = <<>>
    /\ synonyms \in MapInputs
    /\ \E s \in SheetInputs :
          /\ sheet_data = data_rows_of(s)
          /\ reference_data = ref_rows_of(s)

ConsolidateColumns ==
    /\ pc = "sheet"
    /\ pc' = "consolidated"
    /\ \E original_row_order \in OrderInputs(sheet_data) :
       \E out \in {consolidate_columns(synonyms, original_row_order, sheet_data,
                                       reference_data)} :
          /\ sheet_data' = out.data
          /\ reference_data' = out.ref_data
          /\ last' = [called |-> TRUE, raised |-> out.raised, warned |-> out.warned,
                      validated_map |-> out.validated_map,
                      original_row_order |-> original_row_order,
                      data |-> sheet_data, ref_data |-> reference_data]
    /\ UNCHANGED <<vArgs, vResult, rArgs, rResult, reports, metrics, metric_definitions,
                   metric_aliases,
                   calls, all_metrics, synonyms>>

NextConsolidate == ConsolidateColumns

SpecConsolidate == InitConsolidate /\ [][NextConsolidate]_vars

---------------------------------------------------------------------------
(* Properties of the normalizer, checked under SpecSynonyms and SpecConsolidate *)

\* the names handed to identify_synonyms
InputNames == set_of(all_metrics)

\* C17: after identify_synonyms and the validation, a base name whose '#' and '%'
\* variants are both among the names has no mapping in the validated map; when the
\* names are a base name and its '#' variant alone, the validated map is exactly
\* {base: base#}.
C17_BaseNotMergedWhenBothVariants ==
    pc = "validated"
        => \A X \in InputNames :
              (X.suffix = "" /\ hash_variant(X) \in InputNames)
                 => /\ [X EXCEPT !.suffix = "%"] \in InputNames
                         => ~dict_has(last.validated_map, X)
                    /\ InputNames = {X, hash_variant(X)}
                         => last.validated_map = <<Item(X, hash_variant(X))>>

\* C19: every static correction whose raw name is among the names is in the final map
\* with the static target, whatever the structural rules propose for that name; the
\* static map has no key outside the names, and neither has the final map.
C19_StaticWinsOnPresentNames ==
    pc \in {"identified", "validated"}
        => /\ \A i \in 1..Len(STATIC_TYPO_CORRECTIONS) :
                 STATIC_TYPO_CORRECTIONS[i].key \in InputNames
                    => /\ dict_has(synonyms, STATIC_TYPO_CORRECTIONS[i].key)
                       /\ dict_get(synonyms, STATIC_TYPO_CORRECTIONS[i].key)
                            = STATIC_TYPO_CORRECTIONS[i].value
           /\ dict_keys(get_static_synonym_map(all_metrics)) \subseteq InputNames
           /\ dict_keys(synonyms) \subseteq InputNames
           /\ \A i, j \in 1..Len(synonyms) : synonyms[i].key = synonyms[j].key => i = j

\* HGB is among the names with HGB#: the suffix rule proposes HGB -> HGB#, the static
\* table HGB -> Hemoglobin, and the final map carries Hemoglobin
C19_Witness ==
    /\ pc = "identified"
    /\ dict_has(auto_detect_synonyms(all_metrics), N("hgb", "upper", ""))
    /\ dict_get(auto_detect_synonyms(all_metrics), N("hgb", "upper", ""))
         = N("hgb", "upper", "#")
    /\ dict_get(synonyms, N("hgb", "upper", "")) = N("hemoglobin", "mixed", "")
    /\ N("hemoglobin", "mixed", "") \notin InputNames

\* the raw names a synonym map sends to the target of its i-th mapping
GroupOf(map, i) == {map[j].key : j \in {k \in 1..Len(map) : map[k].value = map[i].value}}

\* the group of the i-th mapping holds a '#' raw name and a '%' raw name
Mixed(map, i) ==
    /\ \E n \in GroupOf(map, i) : endswith_hash(n)
    /\ \E n \in GroupOf(map, i) : endswith_percent(n)

\* the mappings of the groups that are not mixed, in the order of the map
Unmixed(map) ==
    LET Kept(i) == ~Mixed(map, i)
        idx == SelectSeq([i \in 1..Len(map) |-> i], Kept)
    IN  [k \in 1..Len(idx) |-> map[idx[k]]]

\* the rows of a sheet under a name
RowsOf(sheet, name) ==
    LET Named(row) == row.metric = name
    IN  SelectSeq(sheet, Named)

\* C18: the validation inside consolidate_columns returns the map without the mappings
\* of the groups that mix '#' and '%' raw names and with every other mapping (upper
\* bounds that differ by more than 2x only warn), and the rows of the names of a
\* rejected group are afterwards as they were, in both sheets.
C18_RejectsExactlyMixedGroups ==
    last.called
        => /\ ~last.raised
           /\ dict_keys(last.validated_map) = dict_keys(Unmixed(synonyms))
           /\ \A i \in 1..Len(last.validated_map) :
                 dict_get(synonyms, last.validated_map[i].key) = last.validated_map[i].value
           /\ \A i \in 1..Len(synonyms) :
                 Mixed(synonyms, i)
                    => /\ RowsOf(sheet_data, synonyms[i].key)
                            = RowsOf(last.data, synonyms[i].key)
                       /\ RowsOf(reference_data, synonyms[i].key)
                            = RowsOf(last.ref_data, synonyms[i].key)

\* the members of a group that have a row in the sheet and a non-empty cell in column c,
\* in group order
Donors(sheet, original_names, c) ==
    LET Gives(name) == /\ row_index_has(sheet, name)
                       /\ strip(sheet[row_index(sheet, name)].cells[c]) # ""
    IN  SelectSeq(original_names, Gives)

\* first-non-empty-wins for the group of unified_name between the sheet before and the
\* sheet after, over the first cols cells
FirstNonEmptyWins(before, after, unified_name, original_names, cols) ==
    (\E i \in 1..Len(original_names) : row_index_has(before, original_names[i]))
    => /\ row_index_has(after, unified_name)
       /\ \A c \in 1..cols :
             LET kept == /\ row_index_has(before, unified_name)
                         /\ strip(before[row_index(before, unified_name)].cells[c]) # ""
                 donors == Donors(before, original_names, c)
                 cell == after[row_index(after, unified_name)].cells[c]
             IN  /\ kept => cell = before[row_index(before, unified_name)].cells[c]
                 /\ (~kept /\ donors # <<>>)
                       => cell = strip(before[row_index(before, donors[1])].cells[c])

\* C20: after consolidate_columns, for every validated group and every column, a
\* canonical cell that was non-empty holds the value it had, and a canonical cell that
\* was empty holds the value of the first member of the group, in group order, with a
\* non-empty cell in that column; the same for the unit, low and high cells of the
\* reference sheet.
C20_FirstNonEmptyWins ==
    (last.called /\ ~last.raised)
        => LET groups == group_by_unified(<<>>, last.validated_map)
           IN  \A g \in 1..Len(groups) :
                  /\ FirstNonEmptyWins(last.data, sheet_data, groups[g].key,
                                       groups[g].value, width(last.data))
                  /\ last.ref_data # <<>>
                        => FirstNonEmptyWins(last.ref_data, reference_data, groups[g].key,
                                             groups[g].value, 3)

---------------------------------------------------------------------------
(* SpecPipeline: the normalizer steps of main.py, run again on the sheet that the
   previous run left: get_all_metric_names, identify_synonyms and, when the map is not
   empty, consolidate_columns *)

MaxPasses == 2   \* runs of the normalizer on one sheet

HGB == N("hgb", "upper", "")
Hemoglobin == N("hemoglobin", "mixed", "")
HemoglobinHash == N("hemoglobin", "mixed", "#")

PipelineNames == <<HGB, Hemoglobin, HemoglobinHash, Lenfosit, LenfositHash>>

\* the value a row of the i-th name holds in the one date column, when it holds one
PipelineValue(i) == (<<"5", "6", "7", "8", "9">>)[i]

\* per name: no row, a row with an empty cell, a row with a value
PipelineSheets ==
    [1..Len(PipelineNames) -> {"absent", "empty", "value"}]

pipeline_data_of(s) ==
    LET Present(i) == s[i] # "absent"
        idx == SelectSeq([i \in 1..Len(PipelineNames) |-> i], Present)
    IN  [k \in 1..Len(idx) |->
            Row(PipelineNames[idx[k]],
                <<IF s[idx[k]] = "value" THEN PipelineValue(idx[k]) ELSE "">>)]

\* a reference row for every row of the data sheet, all with the range 2 - 5
pipeline_ref_of(rows) == [k \in 1..Len(rows) |-> Row(rows[k].metric, <<"g/dL", "2", "5">>)]

\* list(set(metrics)): the distinct names of the first column, in the iteration order of
\* a set, which is any order
get_all_metric_names(sheet) ==
    LET names == set_of(row_names(sheet))
    IN  {l \in [1..Cardinality(names) -> names] :
            \A i, j \in 1..Cardinality(names) : i # j => l[i] # l[j]}

NoPass ==
    [called |-> FALSE, raised |-> FALSE, warned |-> {}, validated_map |-> <<>>,
     original_row_order |-> NoOrder, data |-> <<>>, ref_data |-> <<>>]

InitPipeline ==
    /\ pc = "pass"
    /\ vArgs = IdleVArgs
    /\ vResult = IdleVResult
    /\ rArgs = IdleRArgs
    /\ rResult = IdleRResult
    /\ reports = {}
    /\ metrics = {}
    /\ metric_definitions = {}
    /\ metric_aliases = {}
    /\ calls = 0
    /\ last = NoPass
    /\ all_metrics = <<>>
    /\ synonyms = <<>>
    /\ \E s \in PipelineSheets :
          /\ sheet_data = pipeline_data_of(s)
          /\ reference_data \in {<<>>, pipeline_ref_of(pipeline_data_of(s))}

GetAllMetricNames ==
    /\ pc = "pass"
    /\ calls < MaxPasses
    /\ pc' = "names"
    /\ all_metrics' \in get_all_metric_names(sheet_data)
    /\ UNCHANGED <<vArgs, vResult, rArgs, rResult, reports, metrics, metric_definitions,
                   metric_aliases,
                   calls, last, synonyms, sheet_data, reference_data>>

\* "if synonym_map: consolidate_columns(synonym_map, original_row_order)", the order
\* being the one read_sheet_data returned; an exception ends the run
ConsolidateIfSynonyms ==
    /\ pc = "identified"
    /\ calls' = calls + 1
    /\ \E out \in {consolidate_columns(synonyms, GivenOrder(row_names(sheet_data)),
                                       sheet_data, reference_data)} :
          /\ pc' = IF out.raised THEN "crashed" ELSE "pass"
          /\ sheet_data' = out.data
          /\ reference_data' = out.ref_data
          /\ last' = [called |-> synonyms # <<>>, raised |-> out.raised,
                      warned |-> out.warned, validated_map |-> out.validated_map,
                      original_row_order |-> GivenOrder(row_names(sheet_data)),
                      data |-> sheet_data, ref_data |-> reference_data]
    /\ UNCHANGED <<vArgs, vResult, rArgs, rResult, reports, metrics, metric_definitions,
                   metric_aliases,
                   all_metrics, synonyms>>

NextPipeline == GetAllMetricNames \/ IdentifySynonyms \/ ConsolidateIfSynonyms

SpecPipeline == InitPipeline /\ [][NextPipeline]_vars

---------------------------------------------------------------------------
(* Properties of the normalizer steps, checked under SpecPipeline *)

\* the name a raw name resolves to through at most n mappings of a synonym map
RECURSIVE Resolve(_, _, _)
Resolve(map, name, n) ==
    IF n = 0 \/ ~dict_has(map, name) THEN name
    ELSE Resolve(map, dict_get(map, name), n - 1)

\* a consolidation has just been made by consolidate_columns
Consolidated == pc = "pass" /\ last.called /\ ~last.raised

\* the rows of the sheet before the consolidation that are gone from the sheet after it
RemovedRows ==
    {i \in 1..Len(last.data) : ~row_index_has(sheet_data, last.data[i].metric)}

\* C21: after consolidate_columns on a map that identify_synonyms produced, for every
\* removed row and every date column in which it held a non-empty value, the row of
\* the canonical name that the removed name resolves to survives and holds a non-empty
\* value in that column.
C21_MergePreservesData ==
    Consolidated
        => \A i \in RemovedRows : \A c \in 1..width(last.data) :
              strip(last.data[i].cells[c]) # ""
                 => LET canonical == Resolve(last.validated_map, last.data[i].metric,
                                             Len(last.validated_map))
                    IN  /\ row_index_has(sheet_data, canonical)
                        /\ strip(sheet_data[row_index(sheet_data, canonical)].cells[c]) # ""

---------------------------------------------------------------------------
(* Row order after consolidate_columns, checked under SpecConsolidate *)

\* the order consolidate_columns starts from: the one handed over, or the sheet's own
OriginalOrder ==
    IF last.original_row_order.given THEN last.original_row_order.names
    ELSE row_names(last.data)

\* a name and the names the validated map merges into it
MergedInto(name) ==
    {name} \cup {last.validated_map[k].key :
                    k \in {j \in 1..Len(last.validated_map) :
                             last.validated_map[j].value = name}}

\* the positions in the original order of a name and of the names merged into it
Positions(name) == {i \in 1..Len(OriginalOrder) : OriginalOrder[i] \in MergedInto(name)}

\* the earliest of them
Earliest(name) == CHOOSE i \in Positions(name) : \A j \in Positions(name) : i <= j

\* where the claim puts the row of a before the row of b
OrderedBefore(a, b) ==
    IF Positions(a) # {} /\ Positions(b) # {} THEN Earliest(a) < Earliest(b)
    ELSE IF Positions(a) # {} THEN TRUE
    ELSE IF Positions(b) # {} THEN FALSE
    ELSE ~lower_lt(b, a)

\* C22: after consolidate_columns the rows stand in the original order, a canonical row
\* at the earliest position among itself and the names merged into it, and the rows
\* whose name has no position come after all others, alphabetically without regard to
\* case.
C22_RowOrderPreserved ==
    (last.called /\ ~last.raised)
        => \A i, j \in 1..Len(sheet_data) :
              i < j => OrderedBefore(sheet_data[i].metric, sheet_data[j].metric)

\* a canonical row created by the merge stands at the position of the name merged into
\* it, and the row whose name has no position comes after it
C22_Witness ==
    /\ last.called /\ ~last.raised
    /\ Len(sheet_data) = 2 /\ Len(last.data) = 2
    /\ ~row_index_has(last.data, sheet_data[1].metric)
    /\ last.original_row_order.given
    /\ Positions(sheet_data[1].metric) # {}
    /\ Positions(sheet_data[2].metric) = {}

\* C23 (sheet pipeline): a second run of get_all_metric_names, identify_synonyms and
\* consolidate_columns on the sheet that the first run consolidated removes no row and
\* leaves the data sheet as it was.
C23_SecondPassIsNoOp ==
    (pc = "pass" /\ calls = MaxPasses)
        => /\ RemovedRows = {}
           /\ sheet_data = last.data

---------------------------------------------------------------------------
(* run_group of scripts/metric-normalization/normalize.py on the tables metrics and
   metric_aliases.  A metrics row is [id, report_id, name, unit, ref_low, ref_high,
   created_at]; the value column is read for display only and is left out.  Numbers of
   the table are carried as their text, None as "None". *)

\* two of the merge groups
MERGE_GROUPS ==
    <<Item("Eozinofil#",
           [unit |-> "10^3/uL", ref_low |-> "0", ref_high |-> "0.5",
            variants |-> <<"Eozinofil", "EOS#">>]),
      Item("Albuemin",
           [unit |-> "g/L", ref_low |-> "None", ref_high |-> "None",
            variants |-> <<"Albumin", "Albuemin (Serum/Plazma)", "Albuemuen">>])>>

\* all_names = [canonical] + variants
all_names(canonical, config) == <<canonical>> \o config.variants

\* SELECT ... FROM metrics WHERE name IN (all_names)
select_group(db_metrics, names) == {m \in db_metrics : m.name \in set_of(names)}

\* ORDER BY CASE WHEN name = canonical THEN 0 ELSE 1 END, created_at
ranks_before(canonical, a, b) ==
    \/ a.name = canonical /\ b.name # canonical
    \/ (a.name = canonical) = (b.name = canonical) /\ a.created_at < b.created_at

\* the rows that can get ROW_NUMBER 1 in the partition of a report: no row of the
\* partition ranks before them (rows of equal rank come in an order SQL leaves open)
first_rows(rows, canonical, report_id) ==
    {m \in rows : /\ m.report_id = report_id
                  /\ \A o \in rows : o.report_id = report_id => ~ranks_before(canonical, o, m)}

\* DELETE ... WHERE rn > 1: the tables the statement can leave, one row of the group
\* kept per report
delete_duplicates(db_metrics, canonical, names) ==
    LET rows == select_group(db_metrics, names)
        report_ids == {m.report_id : m \in rows}
        keeps == {k \in [report_ids -> rows] :
                     \A r \in report_ids : k[r] \in first_rows(rows, canonical, r)}
    IN  {db_metrics \ (rows \ {k[r] : r \in report_ids}) : k \in keeps}

\* UPDATE metrics SET name = canonical WHERE name IN (variants)
rename_variants(db_metrics, canonical, variants) ==
    {IF m.name \in set_of(variants) THEN [m EXCEPT !.name = canonical] ELSE m :
        m \in db_metrics}

\* WHERE name = canonical AND (unit IS NULL OR unit = '' OR unit != unit)
unit_to_fix(m, canonical, unit) == m.name = canonical /\ m.unit # unit

\* UPDATE metrics SET unit = unit WHERE ...
fix_unit(db_metrics, canonical, unit) ==
    {IF unit_to_fix(m, canonical, unit) THEN [m EXCEPT !.unit = unit] ELSE m :
        m \in db_metrics}

\* UPDATE metrics SET ref_low = .., ref_high = .. WHERE name = canonical, made when both
\* bounds of the group are set
set_ref_range(db_metrics, canonical, ref_low, ref_high) ==
    IF ref_low # "None" /\ ref_high # "None"
    THEN {IF m.name = canonical THEN [m EXCEPT !.ref_low = ref_low, !.ref_high = ref_high]
          ELSE m : m \in db_metrics}
    ELSE db_metrics

\* an alias that already has a row conflicts, whatever its canonical name
\* (faulty variant: the conflict is tested on the pair)
alias_conflicts_on_pair(db_aliases, alias, canonical) ==
    [alias |-> alias, canonical_name |-> canonical] \in db_aliases
alias_conflicts(db_aliases, alias, canonical) ==
    \E a \in db_aliases : a.alias = alias

\* INSERT INTO metric_aliases ... ON CONFLICT (alias) DO NOTHING for each variant;
\* alias_count counts the statements with rowcount > 0
RECURSIVE insert_aliases(_, _, _, _)
insert_aliases(db_aliases, alias_count, variants, canonical) ==
    IF variants = <<>> THEN [metric_aliases |-> db_aliases, alias_count |-> alias_count]
    ELSE IF alias_conflicts(db_aliases, Head(variants), canonical)
    THEN insert_aliases(db_aliases, alias_count, Tail(variants), canonical)
    ELSE insert_aliases(
             db_aliases \cup {[alias |-> Head(variants), canonical_name |-> canonical]},
             alias_count + 1, Tail(variants), canonical)

NoCounts == [found |-> FALSE, dupes_deleted |-> 0, renamed |-> 0, unit_fixed |-> 0,
             ref_updated |-> 0, alias_count |-> 0]

\* run_group: the outcomes it can have, each the two tables afterwards and the counts
run_group(db_metrics, db_aliases, canonical, config, apply) ==
    LET names == all_names(canonical, config)
        unchanged == [metrics |-> db_metrics, metric_aliases |-> db_aliases,
                      counts |-> NoCounts]
    IN  IF select_group(db_metrics, names) = {} THEN {unchanged}
        ELSE IF ~apply THEN {[unchanged EXCEPT !.counts.found = TRUE]}
        ELSE {LET renamed == rename_variants(deduped, canonical, config.variants)
                  fixed == fix_unit(renamed, canonical, config.unit)
                  ranged == set_ref_range(fixed, canonical, config.ref_low, config.ref_high)
                  aliases == insert_aliases(db_aliases, 0, config.variants, canonical)
              IN  [metrics |-> ranged,
                   metric_aliases |-> aliases.metric_aliases,
                   counts |->
                       [found |-> TRUE,
                        dupes_deleted |-> Cardinality(db_metrics) - Cardinality(deduped),
                        renamed |-> Cardinality({m \in deduped :
                                                    m.name \in set_of(config.variants)}),
                        unit_fixed |-> Cardinality({m \in renamed :
                                          unit_to_fix(m, canonical, config.unit)}),
                        ref_updated |->
                            IF config.ref_low # "None" /\ config.ref_high # "None"
                            THEN Cardinality({m \in fixed : m.name = canonical}) ELSE 0,
                        alias_count |-> aliases.alias_count]] :
              deduped \in delete_duplicates(db_metrics, canonical, names)}

---------------------------------------------------------------------------
(* SpecNormalize: runs of run_group, dry or applied, on the two tables *)

MaxRuns == 3   \* runs of run_group

\* the (report, name) pairs that can hold a metrics row, with the time the row was
\* created: the rows of report r1 come from one batch, in r2 the variant row is older
Slots ==
    <<[report_id |-> "r1", name |-> "Eozinofil#", created_at |-> 1],
      [report_id |-> "r1", name |-> "Eozinofil", created_at |-> 1],
      [report_id |-> "r1", name |-> "EOS#", created_at |-> 1],
      [report_id |-> "r2", name |-> "Eozinofil#", created_at |-> 2],
      [report_id |-> "r2", name |-> "Eozinofil", created_at |-> 1],
      [report_id |-> "r1", name |-> "Albuemin", created_at |-> 1],
      [report_id |-> "r1", name |-> "Albumin", created_at |-> 1]>>

\* a pair holds no row, a row as extracted (no unit, no range) or a row with the unit
\* and the range of the Eozinofil# group
SlotRow(i, kind) ==
    [id |-> i, report_id |-> Slots[i].report_id, name |-> Slots[i].name,
     unit |-> IF kind = "raw" THEN "" ELSE "10^3/uL",
     ref_low |-> IF kind = "raw" THEN "None" ELSE "0",
     ref_high |-> IF kind = "raw" THEN "None" ELSE "0.5",
     created_at |-> Slots[i].created_at]

MetricsTables ==
    {{SlotRow(i, t[i]) : i \in {j \in 1..Len(Slots) : t[j] # "absent"}} :
        t \in [1..Len(Slots) -> {"absent", "raw", "set"}]}

\* the alias table at the start: empty, or with the alias Eozinofil claimed by another
\* canonical name
AliasTables == {{}, {[alias |-> "Eozinofil", canonical_name |-> "Eozinofil%"]}}

NoRun ==
    [called |-> FALSE, canonical |-> "", apply |-> FALSE, counts |-> NoCounts,
     pre |-> [metrics |-> {}, metric_aliases |-> {}],
     previous |-> [called |-> FALSE, canonical |-> "", apply |-> FALSE, found |-> FALSE]]

InitNormalize ==
    /\ pc = "normalize"
    /\ vArgs = IdleVArgs
    /\ vResult = IdleVResult
    /\ rArgs = IdleRArgs
    /\ rResult = IdleRResult
    /\ reports = {}
    /\ metrics \in MetricsTables
    /\ metric_definitions = {}
    /\ metric_aliases \in AliasTables
    /\ calls = 0
    /\ last = NoRun
    /\ all_metrics = <<>>
    /\ synonyms = <<>>
    /\ sheet_data = <<>>
    /\ reference_data = <<>>

\* main() with --group and with or without --apply
RunGroup ==
    /\ pc = "normalize"
    /\ calls < MaxRuns
    /\ calls' = calls + 1
    /\ \E g \in 1..Len(MERGE_GROUPS), apply \in BOOLEAN :
       \E out \in run_group(metrics, metric_aliases, MERGE_GROUPS[g].key,
                            MERGE_GROUPS[g].value, apply) :
          /\ metrics' = out.metrics
          /\ metric_aliases' = out.metric_aliases
          /\ last' = [called |-> TRUE, canonical |-> MERGE_GROUPS[g].key, apply |-> apply,
                      counts |-> out.counts,
                      pre |-> [metrics |-> metrics, metric_aliases |-> metric_aliases],
                      previous |-> [called |-> last.called, canonical |-> last.canonical,
                                    apply |-> last.apply, found |-> last.counts.found]]
    /\ UNCHANGED <<pc, vArgs, vResult, rArgs, rResult, reports, metric_definitions,
                   all_metrics, synonyms, sheet_data, reference_data>>

NextNormalize == RunGroup

SpecNormalize == InitNormalize /\ [][NextNormalize]_vars

---------------------------------------------------------------------------
(* Properties of run_group, checked under SpecNormalize *)

\* the canonical names an alias resolves to
CanonicalNamesOf(alias) == {a.canonical_name : a \in {b \in metric_aliases : b.alias = alias}}

\* C25: after any sequence of run_group executions every alias resolves to exactly one
\* canonical name, no alias row that existed before a run is changed or removed by it,
\* and the run counts exactly the alias rows it added, so an alias that was already
\* claimed is neither inserted nor counted.
C25_AliasResolvesToOneName ==
    /\ \A a \in metric_aliases : CanonicalNamesOf(a.alias) = {a.canonical_name}
    /\ last.called
          => /\ last.pre.metric_aliases \subseteq metric_aliases
             /\ last.counts.alias_count
                   = Cardinality(metric_aliases \ last.pre.metric_aliases)

\* an applied run of the Eozinofil# group while the alias Eozinofil is claimed by
\* another canonical name: only EOS# is inserted
C25_Witness ==
    /\ last.called /\ last.apply /\ last.counts.found
    /\ last.canonical = "Eozinofil#"
    /\ [alias |-> "Eozinofil", canonical_name |-> "Eozinofil%"] \in last.pre.metric_aliases
    /\ last.counts.alias_count = 1
    /\ CanonicalNamesOf("Eozinofil") = {"Eozinofil%"}
    /\ CanonicalNamesOf("EOS#") = {"Eozinofil#"}

\* the run before the last one was an applied run of the same group that found rows
RepeatedRun ==
    /\ last.called /\ last.apply
    /\ last.previous.called /\ last.previous.apply /\ last.previous.found
    /\ last.previous.canonical = last.canonical

\* idempotence of run_group: a second applied run of the same group deletes no row,
\* renames no row and inserts no alias
SecondRunIsNoOp ==
    RepeatedRun
        => /\ last.counts.dupes_deleted = 0
           /\ last.counts.renamed = 0
           /\ last.counts.alias_count = 0

---------------------------------------------------------------------------
(* Order of enumeration, checked under SpecSynonyms *)

\* a synonym map as a mapping, without the order of its items
Mapping(map) == {<<map[i].key, map[i].value>> : i \in 1..Len(map)}

\* the orders in which a set-iteration can enumerate the names of a list
Enumerations(names) ==
    {l \in [1..Len(names) -> set_of(names)] :
        \A i, j \in 1..Len(names) : i # j => l[i] # l[j]}

\* C24: the mapping identify_synonyms produced for the names is the mapping it produces
\* for every other order of enumeration of the same names.
C24_SameMappingForEveryOrder ==
    pc = "identified"
        => \A l \in Enumerations(all_metrics) :
              Mapping(identify_synonyms(l)) = Mapping(synonyms)

---------------------------------------------------------------------------
(* SpecSteps: two save_report calls whose store round trips interleave.
   Every statement of save_report that ends in .execute() is one step; the
   per-metric reads of one loop pass are taken together. *)

StepProcs == {1, 2}

\* the extractions handed to the two callers
StepData == {Data(Num(1), Num(10), Num(20)), Data(Num(7), Num(13), Num(40))}

StepTests ==
    {t \in UNION {[1..n -> [name : MetricNames, data : StepData]] : n \in 0..MaxTests} :
        \A i, j \in 1..Len(t) : i # j => t[i].name # t[j].name}

\* metrics_to_upsert = [], definitions_to_upsert = [], stats = {...}
EmptyBatches ==
    [metrics_to_upsert |-> <<>>, definitions_to_upsert |-> <<>>,
     stats |-> [inserted |-> 0, skipped |-> 0, warnings |-> <<>>]]

\* the arguments and the local variables of one running call
Locals(sample_date, tests_dict) ==
    [profile_id |-> "p1", sample_date |-> sample_date, tests_dict |-> tests_dict,
     validate |-> TRUE, report_id |-> 0, created |-> FALSE, i |-> 1, acc |-> EmptyBatches]

\* the reports table of the store may or may not carry UNIQUE(profile_id, sample_date):
\* save_report is written for neither case, so both are behaviours of the program
InitSteps ==
    /\ pc = [p \in StepProcs |-> "lookup"]
    /\ vArgs = IdleVArgs
    /\ vResult = IdleVResult
    /\ rArgs = IdleRArgs
    /\ rResult = IdleRResult
    /\ reports = {}
    /\ metrics = {}
    /\ metric_definitions = {}
    /\ calls = 0
    /\ \E unique_reports \in BOOLEAN, d \in [StepProcs -> Dates], t \in [StepProcs -> StepTests] :
          last = [unique_reports |-> unique_reports,
                  proc |-> [p \in StepProcs |-> Locals(d[p], t[p])]]
    /\ NoSheet

\* client.table("reports").select("id").eq(...).eq(...).execute(); result.data[0] is
\* any of the matching rows
LookupReport(p) ==
    /\ pc[p] = "lookup"
    /\ LET my == last.proc[p]
           result == select_report(reports, my.profile_id, my.sample_date)
       IN  IF result # {}
           THEN \E r \in result :
                   /\ last' = [last EXCEPT !.proc[p].report_id = r.id]
                   /\ pc' = [pc EXCEPT ![p] = "loop"]
           ELSE /\ pc' = [pc EXCEPT ![p] = "insert"]
                /\ UNCHANGED last
    /\ UNCHANGED <<vArgs, vResult, rArgs, rResult, reports, metrics, metric_definitions, calls>>
    /\ UNCHANGED sheetVars

\* client.table("reports").insert({...}).execute(): a plain insert; under the
\* uniqueness constraint an insert of a stored pair raises out of save_report
InsertReport(p) ==
    /\ pc[p] = "insert"
    /\ LET my == last.proc[p]
           stored == select_report(reports, my.profile_id, my.sample_date)
           row == insert_report(reports, my.profile_id, my.sample_date)
       IN  IF last.unique_reports /\ stored # {}
           THEN /\ pc' = [pc EXCEPT ![p] = "raised"]
                /\ UNCHANGED <<reports, last>>
           ELSE /\ reports' = reports \cup {row}
                /\ last' = [last EXCEPT !.proc[p].report_id = row.id,
                                        !.proc[p].created = TRUE]
                /\ pc' = [pc EXCEPT ![p] = "loop"]
    /\ UNCHANGED <<vArgs, vResult, rArgs, rResult, metrics, metric_definitions, calls>>
    /\ UNCHANGED sheetVars

\* one pass of the loop over tests_dict.items(), reading the store as it is now
ProcessMetric(p) ==
    /\ pc[p] = "loop"
    /\ last.proc[p].i <= Len(last.proc[p].tests_dict)
    /\ LET my == last.proc[p]
           db == [reports |-> reports, metrics |-> metrics,
                  metric_definitions |-> metric_definitions]
       IN  \E acc \in {process_metric(my.acc, db, my.profile_id, my.report_id, my.validate,
                                      my.tests_dict[my.i].name, my.tests_dict[my.i].data)} :
              last' = [last EXCEPT !.proc[p].acc = acc, !.proc[p].i = @ + 1]
    /\ UNCHANGED <<pc, vArgs, vResult, rArgs, rResult, reports, metrics, metric_definitions, calls>>
    /\ UNCHANGED sheetVars

\* the run is stopped after one metric of the loop and before the next
\* (an interrupt or an exception of a store read): nothing of save_report runs after it
Abort(p) ==
    /\ pc[p] = "loop"
    /\ 1 < last.proc[p].i
    /\ last.proc[p].i <= Len(last.proc[p].tests_dict)
    /\ pc' = [pc EXCEPT ![p] = "aborted"]
    /\ UNCHANGED <<vArgs, vResult, rArgs, rResult, reports, metrics, metric_definitions,
                   calls, last>>
    /\ UNCHANGED sheetVars

\* "if metrics_to_upsert: client.table("metrics").upsert(...).execute()"
UpsertMetrics(p) ==
    /\ pc[p] = "loop"
    /\ last.proc[p].i > Len(last.proc[p].tests_dict)
    /\ metrics' = upsert_metrics(metrics, last.proc[p].acc.metrics_to_upsert)
    /\ last' = [last EXCEPT !.proc[p].acc.stats.inserted =
                                Len(last.proc[p].acc.metrics_to_upsert)]
    /\ pc' = [pc EXCEPT ![p] = "definitions"]
    /\ UNCHANGED <<vArgs, vResult, rArgs, rResult, reports, metric_definitions, calls>>
    /\ UNCHANGED sheetVars

\* "if definitions_to_upsert: client.table("metric_definitions").upsert(...).execute()"
\* and the return
UpsertDefinitions(p) ==
    /\ pc[p] = "definitions"
    /\ metric_definitions' =
           upsert_definitions(metric_definitions, last.proc[p].acc.definitions_to_upsert)
    /\ pc' = [pc EXCEPT ![p] = "returned"]
    /\ calls' = calls + 1
    /\ UNCHANGED <<vArgs, vResult, rArgs, rResult, reports, metrics, last>>
    /\ UNCHANGED sheetVars

NextSteps ==
    \E p \in StepProcs :
        \/ LookupReport(p)
        \/ InsertReport(p)
        \/ ProcessMetric(p)
        \/ Abort(p)
        \/ UpsertMetrics(p)
        \/ UpsertDefinitions(p)

SpecSteps == InitSteps /\ [][NextSteps]_vars

RowsOfRun(p) ==
    {r \in reports : r.id = last.proc[p].report_id}
    \cup {m \in metrics : m.report_id = last.proc[p].report_id}

\* C28: a run aborted between two metrics of its loop leaves no row that it wrote
C28_AbortLeavesNoRow ==
    \A p \in StepProcs :
        (pc[p] = "aborted" /\ last.proc[p].created) => RowsOfRun(p) = {}

---------------------------------------------------------------------------
(* Order of the metrics inside one call, checked under Spec *)

\* the items of an extraction in every processing order
Orders(tests) ==
    {[i \in 1..Len(tests) |-> tests[f[i]]] : f \in Permutations(1..Len(tests))}

\* the elements of a queue
Elements(queue) == {queue[i] : i \in 1..Len(queue)}

\* the last call again, on the store it found, with the extraction t
Replayed(t) ==
    save_report(last.pre, last.profile_id, last.sample_date, t, last.validate)

\* C27: the decision for a metric depends neither on the other metrics of the
\* extraction nor on the processing order: every order gives the same stored
\* observations, the same definition updates and the same counts, and a metric
\* handed over alone is queued exactly when the call queued it.
C27_OrderIndependent ==
    last.called =>
        /\ \A t \in Orders(last.tests_dict) : \A out \in {Replayed(t)} :
              /\ out.reports = reports
              /\ out.metrics = metrics
              /\ out.metric_definitions = metric_definitions
              /\ Elements(out.metrics_to_upsert) = Elements(last.metrics_to_upsert)
              /\ Elements(out.definitions_to_upsert) = Elements(last.definitions_to_upsert)
              /\ out.stats.inserted = last.stats.inserted
              /\ out.stats.skipped = last.stats.skipped
        /\ \A i \in 1..Len(last.tests_dict) :
              Elements(Replayed(<<last.tests_dict[i]>>).metrics_to_upsert)
                  = {m \in Elements(last.metrics_to_upsert) : m.name = last.tests_dict[i].name}

\* a call with two metrics on a store that holds the value 1 for both: the first
\* (7, 600% above the median) was rejected, the second was accepted
C27_Witness ==
    /\ last.called /\ last.validate
    /\ Len(last.tests_dict) = 2
    /\ RejectedByValidator(1)
    /\ PriorValues(last.tests_dict[2].name) = <<Num(1)>>
    /\ last.tests_dict[2].name \in QueuedNames
    /\ last.stats.skipped = 1
    /\ last.stats.inserted = 1

---------------------------------------------------------------------------
(* Repeated ingestion, checked under Spec *)

EmptyStore == [reports |-> {}, metrics |-> {}, metric_definitions |-> {}]

\* the three tables of a save_report outcome
StoreOf(out) ==
    [reports |-> out.reports, metrics |-> out.metrics,
     metric_definitions |-> out.metric_definitions]

CurrentStore ==
    [reports |-> reports, metrics |-> metrics, metric_definitions |-> metric_definitions]

\* the call before the last one was the same call: the last call found the store
\* that its own arguments produce on the empty store
SameCallTwice ==
    /\ calls = 2
    /\ last.called
    /\ \E first \in {save_report(EmptyStore, last.profile_id, last.sample_date,
                                 last.tests_dict, last.validate)} :
          StoreOf(first) = last.pre

\* C29: the second of two successive save_report calls with the same profile, sample
\* date and tests leaves reports, observations and definitions as the first call left
\* them; the same holds for a repetition of any call on the store it produced.
C29_ReingestionIdempotent ==
    /\ SameCallTwice => CurrentStore = last.pre
    /\ last.called =>
          \A again \in {save_report(CurrentStore, last.profile_id, last.sample_date,
                                    last.tests_dict, last.validate)} :
              StoreOf(again) = CurrentStore

\* the same two-metric extraction was ingested twice with validation on; the second
\* call validated against the values of the first and stored both metrics again
C29_Witness ==
    /\ SameCallTwice
    /\ last.validate
    /\ Len(last.tests_dict) = 2
    /\ last.stats.inserted = 2
    /\ PriorValues(last.tests_dict[1].name) # <<>>
    /\ Cardinality(metrics) = 2

---------------------------------------------------------------------------
(* Stored reference values across ingestions, checked under Spec *)

\* the stored definition of the key of d after the last call
StoredAfter(d) ==
    {e \in metric_definitions : e.profile_id = d.profile_id /\ e.name = d.name}

\* a stored reference value e was replaced by n: e is a number other than 0 and n is a
\* number at most 50% of abs(e) away from it
AllowedChange(e, n) ==
    /\ IsNum(e) /\ e[2] # 0
    /\ IsNum(float(n))
    /\ abs(float(n)[2] - e[2]) * 100 <= 50 * abs(e[2])

\* C30: a call changes a stored, non-null ref_low or ref_high only from a non-zero
\* value e to a value n with abs(n - e) / abs(e) * 100 <= 50; a stored 0 is never
\* changed.
C30_StoredReferenceChangeBounded ==
    last.called =>
        \A d \in last.pre.metric_definitions : \A e \in StoredAfter(d) :
            /\ (~IsNone(d.ref_low) /\ e.ref_low # d.ref_low)
                   => AllowedChange(d.ref_low, e.ref_low)
            /\ (~IsNone(d.ref_high) /\ e.ref_high # d.ref_high)
                   => AllowedChange(d.ref_high, e.ref_high)
            /\ is_zero(d.ref_low) => e.ref_low = d.ref_low

\* the stored references were (13, 40) and the extraction brought (10, 20): both were
\* replaced, ref_high at exactly 50%; in the same store a reference 0 met the
\* extracted 10 and stayed 0
C30_Witness ==
    /\ last.called
    /\ \E d \in last.pre.metric_definitions : \E e \in StoredAfter(d) :
          /\ d.ref_low = Num(13) /\ d.ref_high = Num(40)
          /\ e.ref_low = Num(10) /\ e.ref_high = Num(20)
    /\ \E d \in last.pre.metric_definitions : \E e \in StoredAfter(d) :
          /\ is_zero(d.ref_low) /\ e.ref_low = Num(0)
          /\ \E i \in 1..Len(last.definitions_to_upsert) :
                /\ QueuedDefinition(i).name = d.name
                /\ QueuedDefinition(i).profile_id = d.profile_id
                /\ Extracted(d.name).ref_low = Num(10)

===========================================================================
